---- MODULE Spec2Model ----
(***************************************************************************)
(* A model of the miniC compiler pipeline: lexing and parsing of a source  *)
(* text, semantic analysis of the AST, lowering to basic-block IR and      *)
(* emission of NASM text.                                                  *)
(*                                                                         *)
(* std::string values are sequences of character codes, so that the        *)
(* byte-wise comparisons the code makes (std::sort, find_first_not_of,     *)
(* std::to_string) are computed and not assumed.                           *)
(***************************************************************************)
EXTENDS Integers, Sequences, FiniteSets, TLC

VARIABLES
    program,      \* the AST handed to the stages (Program)
    analyzer,     \* the SemanticAnalyzer object: scopes_, functions_, current_function_type_
    sem_log,      \* outcome of every visit(Program) call made on the analyzer, oldest first
    ir_gen,       \* IRGenerator::generate: outcome of the first run, the generator
                  \* object after it, and the outcome of a second run
    asm,          \* outcome of CodeGenerator::generate: "none", or the emitted lines
    lexer,        \* outcome of Lexer::Lex: the exception, or the tokens
    parser,       \* outcome of Parser::parse: the exception ("" when none)
    cf,           \* the frame of compile_file: its source argument, the try block
                  \* control is at, the value returned, whether output.asm was opened
    process       \* what outlives a Lexer object: the static pending_dedents of
                  \* handle_indentation, and the number of Lexer::Lex runs made

vars == <<program, analyzer, sem_log, ir_gen, asm, lexer, parser, cf, process>>

(***************************************************************************)
(* Strings                                                                 *)
(***************************************************************************)
Str_empty == <<>>
Str_a == <<97>>
Str_b == <<98>>
Str_f == <<102>>
Str_g == <<103>>
Str_s == <<115>>
Str_t == <<116>>
Str_t0 == <<116, 48>>
Str_main == <<109, 97, 105, 110>>
Str_us == <<95>>
Str_start == <<95, 115, 116, 97, 114, 116>>
Str_entry == <<101, 110, 116, 114, 121>>
Str_entry_0 == <<101, 110, 116, 114, 121, 95, 48>>
Str_epilogue_sfx == <<95, 101, 112, 105, 108, 111, 103, 117, 101>>
Str_f_epilogue == <<102, 95, 101, 112, 105, 108, 111, 103, 117, 101>>
Str_if_then == <<105, 102, 95, 116, 104, 101, 110>>
Str_if_else == <<105, 102, 95, 101, 108, 115, 101>>
Str_if_end == <<105, 102, 95, 101, 110, 100>>
Str_while_cond == <<119, 104, 105, 108, 101, 95, 99, 111, 110, 100>>
Str_while_body == <<119, 104, 105, 108, 101, 95, 98, 111, 100, 121>>
Str_while_end == <<119, 104, 105, 108, 101, 95, 101, 110, 100>>
Str_if_then_1 == <<105, 102, 95, 116, 104, 101, 110, 95, 49>>

\* std::to_string of a non-negative integer: its decimal digits
RECURSIVE to_string(_)
to_string(n) ==
    IF n < 10 THEN <<48 + n>> ELSE to_string(n \div 10) \o <<48 + (n % 10)>>

\* name.find_first_not_of("0123456789") == std::string::npos
all_digits(s) == \A i \in 1..Len(s) : s[i] \in 48..57

\* std::string operator< : byte-wise lexicographic order
RECURSIVE str_less(_, _)
str_less(x, y) ==
    IF y = <<>> THEN FALSE
    ELSE IF x = <<>> THEN TRUE
    ELSE IF Head(x) # Head(y) THEN Head(x) < Head(y)
    ELSE str_less(Tail(x), Tail(y))

(***************************************************************************)
(* AST (Expr, Stmt, Function, Program)                                     *)
(***************************************************************************)
KEYWORD_INT == "KEYWORD_INT"
KEYWORD_VOID == "KEYWORD_VOID"
KEYWORD_STR == "KEYWORD_STR"

NoExpr == [k |-> "nullptr"]
IntLiteral(v) == [k |-> "IntLiteral", value |-> v]
StringLiteral(s) == [k |-> "StringLiteral", value |-> s]
Identifier(n) == [k |-> "Identifier", name |-> n]
UnaryExpr(o, e) == [k |-> "UnaryExpr", op |-> o, operand |-> e]
BinaryExpr(l, o, r) == [k |-> "BinaryExpr", left |-> l, op |-> o, right |-> r]

VarDeclStmt(t, n, init) == [k |-> "VarDeclStmt", type |-> t, name |-> n, initializer |-> init]
AssignStmt(n, v) == [k |-> "AssignStmt", name |-> n, value |-> v]
ReturnStmt(v) == [k |-> "ReturnStmt", value |-> v]
IfStmt(c, t, e) == [k |-> "IfStmt", condition |-> c, then_branch |-> t, else_branch |-> e]
WhileStmt(c, b) == [k |-> "WhileStmt", condition |-> c, body |-> b]

Parameter(t, n) == [type |-> t, name |-> n]
Function(n, rt, ps, b) == [name |-> n, return_type |-> rt, parameters |-> ps, body |-> b]
Program(fs) == [functions |-> fs]

(***************************************************************************)
(* SemanticAnalyzer                                                        *)
(*                                                                         *)
(* A SemanticError in flight is the field `thrown` of the run record (""   *)
(* when none): every step after a throw is skipped, as stack unwinding     *)
(* does, and the object's fields keep the values they had at the throw.    *)
(* visits_ is a history field: the number of visit(Function) calls made.   *)
(* sizes_ is a history field: scopes_.size() at every entry of             *)
(* visit(const Stmt&) and of pop_scope(), in the order of the calls.       *)
(* An error message is kept without the names and numbers the code splices *)
(* into it.                                                                *)
(***************************************************************************)

TypeTokens == {KEYWORD_INT, KEYWORD_VOID, KEYWORD_STR}

\* a value returned by a typed helper is a type; anything else is a throw
Thrown(x) == x \notin TypeTokens

SymbolTable == <<>>

\* table[name] = type
table_set(table, name, type) ==
    [n \in (DOMAIN table) \cup {name} |-> IF n = name THEN type ELSE table[n]]

Throw(A, msg) == [A EXCEPT !.thrown = msg]

push_scope(A) == [A EXCEPT !.scopes_ = Append(@, SymbolTable)]

\* the history entry of a call: where, and the size of the stack at its entry
observed(A, at) == [A EXCEPT !.sizes_ = Append(@, [at |-> at, size |-> Len(A.scopes_)])]

\* mutation: the scope is checked but its table is left on the stack
pop_scope_keeps_table(A) ==
    IF A.scopes_ = <<>> THEN Throw(observed(A, "pop"), "Scope stack underflow")
    ELSE observed(A, "pop")

pop_scope(A) ==
    IF A.scopes_ = <<>> THEN Throw(observed(A, "pop"), "Scope stack underflow")
    ELSE [observed(A, "pop") EXCEPT !.scopes_ = SubSeq(@, 1, Len(@) - 1)]

\* mutation: every open scope is searched, not the innermost one only
is_declared_in_any_scope(A, name) ==
    \E i \in 1..Len(A.scopes_) : name \in DOMAIN A.scopes_[i]

is_declared_in_current_scope(A, name) ==
    IF A.scopes_ = <<>> THEN FALSE
    ELSE name \in DOMAIN A.scopes_[Len(A.scopes_)]

\* the copy of scopes_ is walked from the top down
RECURSIVE get_type_walk(_, _, _)
get_type_walk(scopes, i, name) ==
    IF i = 0 THEN "Variable not declared"
    ELSE IF name \in DOMAIN scopes[i] THEN scopes[i][name]
    ELSE get_type_walk(scopes, i - 1, name)

get_type(A, name) == get_type_walk(A.scopes_, Len(A.scopes_), name)

RECURSIVE infer_type(_, _)
infer_type(A, expr) ==
    IF expr.k = "IntLiteral" THEN KEYWORD_INT
    ELSE IF expr.k = "StringLiteral" THEN KEYWORD_STR
    ELSE IF expr.k = "Identifier" THEN get_type(A, expr.name)
    ELSE IF expr.k = "BinaryExpr" THEN
        LET left_type == infer_type(A, expr.left) IN
        IF Thrown(left_type) THEN left_type
        ELSE LET right_type == infer_type(A, expr.right) IN
             IF Thrown(right_type) THEN right_type
             ELSE IF left_type = KEYWORD_INT /\ right_type = KEYWORD_INT
                  THEN KEYWORD_INT
                  ELSE "Type inference failed for binary expression"
    ELSE "Cannot infer type for unknown expression"

OP_PLUS == "OP_PLUS"
OP_MINUS == "OP_MINUS"
OP_MULTIPLY == "OP_MULTIPLY"
OP_DIVIDE == "OP_DIVIDE"
OP_ASSIGN == "OP_ASSIGN"
OP_EQUAL == "OP_EQUAL"
OP_NOT_EQUAL == "OP_NOT_EQUAL"
OP_LESS == "OP_LESS"
OP_GREATER == "OP_GREATER"
OP_LESS_EQ == "OP_LESS_EQ"
OP_GREATER_EQ == "OP_GREATER_EQ"
OP_NOT == "OP_NOT"

\* returns "" or the message of the SemanticError it throws
\* mutation: the operand types are checked for every operator token
validate_binary_op_any_operator(op, left_type, right_type) ==
    IF left_type # KEYWORD_INT \/ right_type # KEYWORD_INT
    THEN "Operands for operator must be int" ELSE ""

validate_binary_op(op, left_type, right_type) ==
    LET is_arithmetic == op \in {OP_PLUS, OP_MINUS, OP_MULTIPLY, OP_DIVIDE}
        is_comparison == op \in {OP_EQUAL, OP_NOT_EQUAL, OP_LESS, OP_LESS_EQ,
                                 OP_GREATER, OP_GREATER_EQ}
    IN IF is_arithmetic \/ is_comparison
       THEN IF left_type # KEYWORD_INT \/ right_type # KEYWORD_INT
            THEN "Operands for operator must be int" ELSE ""
       ELSE "Unsupported binary operator"

\* visit(const Expr&): returns "" or the message of the SemanticError it throws
RECURSIVE visit_Expr(_, _)
visit_Expr(A, expr) ==
    IF expr.k = "Identifier" THEN
        (IF Thrown(get_type(A, expr.name)) THEN get_type(A, expr.name) ELSE "")
    ELSE IF expr.k = "BinaryExpr" THEN
        LET l == visit_Expr(A, expr.left) IN
        IF l # "" THEN l
        ELSE LET r == visit_Expr(A, expr.right) IN
             IF r # "" THEN r
             ELSE LET left_type == infer_type(A, expr.left) IN
                  IF Thrown(left_type) THEN left_type
                  ELSE LET right_type == infer_type(A, expr.right) IN
                       IF Thrown(right_type) THEN right_type
                       ELSE validate_binary_op(expr.op, left_type, right_type)
    ELSE IF expr.k \in {"IntLiteral", "StringLiteral"} THEN ""
    ELSE "Unknown expression type"

\* visit(expr) followed by infer_type(expr): a type, or the message thrown
visit_then_infer(A, expr) ==
    IF visit_Expr(A, expr) # "" THEN visit_Expr(A, expr) ELSE infer_type(A, expr)

declare(A, name, type) ==
    [A EXCEPT !.scopes_[Len(A.scopes_)] = table_set(@, name, type)]

RECURSIVE visit_Stmt(_, _)
RECURSIVE visit_Stmts(_, _)

visit_VarDeclStmt(A, decl) ==
    IF is_declared_in_current_scope(A, decl.name)
    THEN Throw(A, "Variable redeclared in current scope")
    ELSE IF decl.type = KEYWORD_VOID THEN Throw(A, "Cannot declare variable as void")
    ELSE LET A1 == declare(A, decl.name, decl.type) IN
         IF decl.initializer = NoExpr THEN A1
         ELSE LET init_type == visit_then_infer(A1, decl.initializer) IN
              IF Thrown(init_type) THEN Throw(A1, init_type)
              ELSE IF init_type # decl.type THEN Throw(A1, "Type mismatch in declaration")
              ELSE A1

visit_AssignStmt(A, assign) ==
    LET var_type == get_type(A, assign.name) IN
    IF Thrown(var_type) THEN Throw(A, var_type)
    ELSE IF var_type = KEYWORD_VOID THEN Throw(A, "Cannot assign to void variable")
    ELSE LET value_type == visit_then_infer(A, assign.value) IN
         IF Thrown(value_type) THEN Throw(A, value_type)
         ELSE IF var_type # value_type THEN Throw(A, "Type mismatch in assignment")
         ELSE A

visit_ReturnStmt(A, ret) ==
    IF ret.value # NoExpr THEN
        LET ret_type == visit_then_infer(A, ret.value) IN
        IF Thrown(ret_type) THEN Throw(A, ret_type)
        ELSE IF ret_type # A.current_function_type_ THEN Throw(A, "Return type mismatch")
        ELSE A
    ELSE IF A.current_function_type_ # KEYWORD_VOID
    THEN Throw(A, "Non-void function must return a value")
    ELSE A

\* mutation: the statements of a block are visited in the scope around it
visit_scoped_in_place(A, stmts) == visit_Stmts(A, stmts)

\* push_scope(); visit every statement; pop_scope()
visit_scoped(A, stmts) ==
    LET A1 == visit_Stmts(push_scope(A), stmts) IN
    IF A1.thrown # "" THEN A1 ELSE pop_scope(A1)

visit_IfStmt(A, if_stmt) ==
    LET cond_type == visit_then_infer(A, if_stmt.condition) IN
    IF Thrown(cond_type) THEN Throw(A, cond_type)
    ELSE IF cond_type # KEYWORD_INT THEN Throw(A, "If condition must be int type")
    ELSE LET A1 == visit_scoped(A, if_stmt.then_branch) IN
         IF A1.thrown # "" THEN A1 ELSE visit_scoped(A1, if_stmt.else_branch)

visit_WhileStmt(A, while_stmt) ==
    LET cond_type == visit_then_infer(A, while_stmt.condition) IN
    IF Thrown(cond_type) THEN Throw(A, cond_type)
    ELSE IF cond_type # KEYWORD_INT THEN Throw(A, "While condition must be int type")
    ELSE visit_scoped(A, while_stmt.body)

visit_dispatch(A, stmt) ==
    IF stmt.k = "VarDeclStmt" THEN visit_VarDeclStmt(A, stmt)
    ELSE IF stmt.k = "AssignStmt" THEN visit_AssignStmt(A, stmt)
    ELSE IF stmt.k = "ReturnStmt" THEN visit_ReturnStmt(A, stmt)
    ELSE IF stmt.k = "IfStmt" THEN visit_IfStmt(A, stmt)
    ELSE IF stmt.k = "WhileStmt" THEN visit_WhileStmt(A, stmt)
    ELSE Throw(A, "Unknown statement type")

\* visit(const Stmt&): the chain of dynamic_casts on the statement
visit_Stmt(A, stmt) == visit_dispatch(observed(A, "stmt"), stmt)

visit_Stmts(A, stmts) ==
    IF stmts = <<>> \/ A.thrown # "" THEN A
    ELSE visit_Stmts(visit_Stmt(A, Head(stmts)), Tail(stmts))

RECURSIVE visit_parameters(_, _)
visit_parameters(A, params) ==
    IF params = <<>> \/ A.thrown # "" THEN A
    ELSE IF is_declared_in_current_scope(A, Head(params).name)
         THEN Throw(A, "Parameter redeclared")
         ELSE visit_parameters(declare(A, Head(params).name, Head(params).type),
                               Tail(params))

visit_Function(A, function) ==
    LET A1 == visit_parameters([A EXCEPT !.visits_ = @ + 1], function.parameters) IN
    IF A1.thrown # "" THEN A1 ELSE visit_Stmts(A1, function.body)

\* first loop of visit(const Program&): register every function
RECURSIVE register_functions(_, _)
register_functions(A, functions) ==
    IF functions = <<>> \/ A.thrown # "" THEN A
    ELSE IF Head(functions).name \in DOMAIN A.functions_
         THEN Throw(A, "Function redefined")
         ELSE register_functions(
                  [A EXCEPT !.functions_ =
                       table_set(@, Head(functions).name, Head(functions).return_type)],
                  Tail(functions))

\* second loop of visit(const Program&): analyze every function in its own scope
RECURSIVE analyze_functions(_, _)
analyze_functions(A, functions) ==
    IF functions = <<>> \/ A.thrown # "" THEN A
    ELSE LET func == Head(functions)
             A1 == push_scope([A EXCEPT !.current_function_type_ = func.return_type])
             A2 == visit_Function(A1, func)
         IN IF A2.thrown # "" THEN A2
            ELSE analyze_functions(pop_scope(A2), Tail(functions))

\* mutation: one loop, each function is registered just before it is analyzed
RECURSIVE register_and_analyze(_, _)
register_and_analyze(A, functions) ==
    IF functions = <<>> \/ A.thrown # "" THEN A
    ELSE LET func == Head(functions) IN
         IF func.name \in DOMAIN A.functions_ THEN Throw(A, "Function redefined")
         ELSE LET A0 == [A EXCEPT !.functions_ = table_set(@, func.name, func.return_type)]
                  A1 == push_scope([A0 EXCEPT !.current_function_type_ = func.return_type])
                  A2 == visit_Function(A1, func)
              IN IF A2.thrown # "" THEN A2
                 ELSE register_and_analyze(pop_scope(A2), Tail(functions))

visit_Program_one_loop(A, prog) == register_and_analyze(A, prog.functions)

visit_Program(A, prog) ==
    LET A1 == register_functions(A, prog.functions) IN
    IF A1.thrown # "" THEN A1 ELSE analyze_functions(A1, prog.functions)

\* SemanticAnalyzer::SemanticAnalyzer(): push_scope() for the global scope
SemanticAnalyzer ==
    [scopes_ |-> <<SymbolTable>>,
     functions_ |-> <<>>,
     current_function_type_ |-> KEYWORD_VOID,
     visits_ |-> 0,
     sizes_ |-> <<>>]

(***************************************************************************)
(* IRGenerator                                                             *)
(*                                                                         *)
(* The generator state G holds the blocks of the function under            *)
(* construction, current_block_ as an index into them, both counters and   *)
(* var_map_; `thrown` is the std::runtime_error in flight ("" when none).  *)
(***************************************************************************)

IRInstruction(op, res, op1, op2) ==
    [opcode |-> op, result |-> res, operand1 |-> op1, operand2 |-> op2]

BasicBlock(lbl) == [label |-> lbl, instructions |-> <<>>]

\* current_block_->instructions.emplace_back(op, res, op1, op2)
emit(G, op, res, op1, op2) ==
    [G EXCEPT !.blocks[G.current_block_].instructions =
                  Append(@, IRInstruction(op, res, op1, op2))]

\* "t" + std::to_string(temp_counter_++)
new_temp(G) ==
    [g |-> [G EXCEPT !.temp_counter_ = @ + 1],
     val |-> Str_t \o to_string(G.temp_counter_)]

\* prefix + "_" + std::to_string(label_counter_++)
new_label(G, prefix) ==
    [g |-> [G EXCEPT !.label_counter_ = @ + 1],
     val |-> prefix \o Str_us \o to_string(G.label_counter_)]

\* make a new block current and push it onto current_function_->blocks
open_block(G, lbl) ==
    [G EXCEPT !.blocks = Append(@, BasicBlock(lbl)),
              !.current_block_ = Len(G.blocks) + 1]

\* the switch of generate_expr over bin->op; "" stands for the default: throw
binary_opcode(op) ==
    CASE op = OP_PLUS -> "ADD"
      [] op = OP_MINUS -> "SUB"
      [] op = OP_MULTIPLY -> "MUL"
      [] op = OP_DIVIDE -> "DIV"
      [] op = OP_EQUAL -> "EQ"
      [] op = OP_NOT_EQUAL -> "NEQ"
      [] op = OP_LESS -> "LT"
      [] op = OP_GREATER -> "GT"
      [] op = OP_LESS_EQ -> "LE"
      [] op = OP_GREATER_EQ -> "GE"
      [] OTHER -> ""

GThrow(G, msg) == [g |-> [G EXCEPT !.thrown = msg], val |-> Str_empty]

\* returns [g |-> the generator after the call, val |-> the operand name]
RECURSIVE generate_expr(_, _)
generate_expr(G, expr) ==
    IF expr.k = "IntLiteral" THEN
        LET t == new_temp(G) IN
        [g |-> emit(t.g, "ASSIGN", t.val, to_string(expr.value), Str_empty),
         val |-> t.val]
    ELSE IF expr.k = "StringLiteral" THEN
        LET t == new_temp(G) IN
        [g |-> emit(t.g, "ASSIGN", t.val, expr.value, Str_empty), val |-> t.val]
    ELSE IF expr.k = "Identifier" THEN
        (IF expr.name \notin DOMAIN G.var_map_ THEN GThrow(G, "Undeclared variable in IR")
         ELSE [g |-> G, val |-> G.var_map_[expr.name]])
    ELSE IF expr.k = "UnaryExpr" THEN
        LET o == generate_expr(G, expr.operand) IN
        IF o.g.thrown # "" THEN o
        ELSE LET t == new_temp(o.g)
                 op == IF expr.op = OP_MINUS THEN "NEG" ELSE "NOT"
             IN [g |-> emit(t.g, op, t.val, o.val, Str_empty), val |-> t.val]
    ELSE IF expr.k = "BinaryExpr" THEN
        LET l == generate_expr(G, expr.left) IN
        IF l.g.thrown # "" THEN l
        ELSE LET r == generate_expr(l.g, expr.right) IN
             IF r.g.thrown # "" THEN r
             ELSE LET t == new_temp(r.g) IN
                  IF binary_opcode(expr.op) = ""
                  THEN GThrow(t.g, "Unsupported binary operator in IR")
                  ELSE [g |-> emit(t.g, binary_opcode(expr.op), t.val, l.val, r.val),
                        val |-> t.val]
    ELSE GThrow(G, "Unsupported expression in IR generation")

RECURSIVE ir_visit_Stmt(_, _)
RECURSIVE ir_visit_Stmts(_, _)

ir_visit_VarDeclStmt(G, decl) ==
    LET G1 == [G EXCEPT !.var_map_ = table_set(@, decl.name, decl.name)] IN
    IF decl.initializer = NoExpr THEN G1
    ELSE LET init == generate_expr(G1, decl.initializer) IN
         IF init.g.thrown # "" THEN init.g
         ELSE emit(init.g, "ASSIGN", decl.name, init.val, Str_empty)

ir_visit_AssignStmt(G, assign) ==
    LET value == generate_expr(G, assign.value) IN
    IF value.g.thrown # "" THEN value.g
    ELSE emit(value.g, "ASSIGN", assign.name, value.val, Str_empty)

ir_visit_ReturnStmt(G, ret) ==
    IF ret.value # NoExpr THEN
        LET value == generate_expr(G, ret.value) IN
        IF value.g.thrown # "" THEN value.g
        ELSE emit(value.g, "RETURN", Str_empty, value.val, Str_empty)
    ELSE emit(G, "RETURN", Str_empty, Str_empty, Str_empty)

\* mutation: a branch without statements gets no block
ir_branch_unless_empty(G, lbl, stmts, target) ==
    IF stmts = <<>> THEN G
    ELSE emit(ir_visit_Stmts(open_block(G, lbl), stmts), "JUMP", Str_empty, target, Str_empty)

\* open the block, lower the statements, emit the closing JUMP
ir_branch(G, lbl, stmts, target) ==
    LET G1 == ir_visit_Stmts(open_block(G, lbl), stmts) IN
    IF G1.thrown # "" THEN G1
    ELSE emit(G1, "JUMP", Str_empty, target, Str_empty)

ir_visit_IfStmt(G, if_stmt) ==
    LET cond == generate_expr(G, if_stmt.condition) IN
    IF cond.g.thrown # "" THEN cond.g
    ELSE LET then_label == new_label(cond.g, Str_if_then)
             else_label == new_label(then_label.g, Str_if_else)
             end_label == new_label(else_label.g, Str_if_end)
             G1 == emit(end_label.g, "JUMPIFNOT", Str_empty, cond.val, else_label.val)
             G2 == ir_branch(G1, then_label.val, if_stmt.then_branch, end_label.val)
         IN IF G2.thrown # "" THEN G2
            ELSE LET G3 == ir_branch(G2, else_label.val, if_stmt.else_branch,
                                     end_label.val)
                 IN IF G3.thrown # "" THEN G3 ELSE open_block(G3, end_label.val)

ir_visit_WhileStmt(G, while_stmt) ==
    LET cond_label == new_label(G, Str_while_cond)
        body_label == new_label(cond_label.g, Str_while_body)
        end_label == new_label(body_label.g, Str_while_end)
        G1 == emit(end_label.g, "JUMP", cond_label.val, Str_empty, Str_empty)
        cond == generate_expr(open_block(G1, cond_label.val), while_stmt.condition)
    IN IF cond.g.thrown # "" THEN cond.g
       ELSE LET G2 == emit(cond.g, "JUMPIFNOT", Str_empty, cond.val, end_label.val)
                G3 == ir_visit_Stmts(open_block(G2, body_label.val), while_stmt.body)
            IN IF G3.thrown # "" THEN G3
               ELSE open_block(emit(G3, "JUMP", cond_label.val, Str_empty, Str_empty),
                               end_label.val)

ir_visit_Stmt(G, stmt) ==
    IF stmt.k = "VarDeclStmt" THEN ir_visit_VarDeclStmt(G, stmt)
    ELSE IF stmt.k = "AssignStmt" THEN ir_visit_AssignStmt(G, stmt)
    ELSE IF stmt.k = "ReturnStmt" THEN ir_visit_ReturnStmt(G, stmt)
    ELSE IF stmt.k = "IfStmt" THEN ir_visit_IfStmt(G, stmt)
    ELSE IF stmt.k = "WhileStmt" THEN ir_visit_WhileStmt(G, stmt)
    ELSE [G EXCEPT !.thrown = "Unsupported statement in IR generation"]

ir_visit_Stmts(G, stmts) ==
    IF stmts = <<>> \/ G.thrown # "" THEN G
    ELSE ir_visit_Stmts(ir_visit_Stmt(G, Head(stmts)), Tail(stmts))

\* var_map_[param.name] = param.name for every parameter
RECURSIVE ir_params(_, _)
ir_params(var_map, params) ==
    IF params = <<>> THEN var_map
    ELSE ir_params(table_set(var_map, Head(params).name, Head(params).name),
                   Tail(params))

\* IRGenerator::IRGenerator: the members of a new generator. `blocks` are the
\* blocks of *current_function_; ir_program_ is the list the callers thread.
IRGenerator ==
    [blocks |-> <<>>, current_block_ |-> 0, temp_counter_ |-> 0,
     label_counter_ |-> 0, var_map_ |-> <<>>, thrown |-> ""]

\* what visit(const Function&) leaves: the generator after the call, the
\* exception and the IRFunction moved into ir_program_
lowered(G, function) ==
    [g |-> G, thrown |-> G.thrown,
     fn |-> [name |-> function.name, return_type |-> function.return_type,
             parameters |-> function.parameters, blocks |-> G.blocks]]

\* the block "entry_<n>" is opened and is the current block
open_entry(entry) == open_block(entry.g, entry.val)

\* every parameter gets its own name in var_map_
map_parameters(G, function) == [G EXCEPT !.var_map_ = ir_params(@, function.parameters)]

\* visit(const Function&) from the entry block on
lower_function(G0, function) ==
    lowered(ir_visit_Stmts(map_parameters(open_entry(new_label(G0, Str_entry)), function),
                           function.body),
            function)

\* mutation: the counters run on from the function generated before
ir_visit_Function_keeps_counters(G, function) ==
    lower_function([G EXCEPT !.blocks = <<>>, !.current_block_ = 0,
                             !.var_map_ = <<>>],
                   function)

\* visit(const Function&): a new IRFunction, both counters back to 0 and
\* var_map_ cleared, whatever the generator did before
ir_visit_Function(G, function) ==
    lower_function([G EXCEPT !.blocks = <<>>, !.current_block_ = 0,
                             !.temp_counter_ = 0, !.label_counter_ = 0,
                             !.var_map_ = <<>>],
                   function)

\* visit(const Program&): the functions pushed onto ir_program_, until a throw
RECURSIVE ir_visit_Program(_, _, _)
ir_push_function(f, done, functions) ==
    IF f.thrown # "" THEN [g |-> f.g, thrown |-> f.thrown, functions |-> <<>>]
    ELSE ir_visit_Program(f.g, Append(done, f.fn), Tail(functions))

ir_visit_Program(G, done, functions) ==
    IF functions = <<>> THEN [g |-> G, thrown |-> "", functions |-> done]
    ELSE ir_push_function(ir_visit_Function(G, Head(functions)), done, functions)

\* generate(const Program&) on the generator G: a new IRProgram is filled and
\* moved out, or the exception leaves
generate(G, prog) == ir_visit_Program([G EXCEPT !.thrown = ""], <<>>, prog.functions)

(***************************************************************************)
(* CodeGenerator                                                           *)
(*                                                                         *)
(* The emitter state C holds the per-function members of the object and    *)
(* `out`, the lines written so far.  A line is a label definition          *)
(* [label |-> l] (the text l ":"), an instruction [mn, ops] whose operands *)
(* are register names [reg |-> r] or operand text [txt |-> t], or a        *)
(* comment.  `thrown` is the std::runtime_error in flight ("" when none).  *)
(***************************************************************************)

KnownOpcodes ==
    {"ASSIGN", "ADD", "SUB", "MUL", "DIV", "NEG", "NOT", "EQ", "NEQ", "LT", "GT",
     "LE", "GE", "JUMP", "JUMPIF", "JUMPIFNOT", "RETURN"}

Str_0 == <<48>>
Str_60 == <<54, 48>>
Str_rbp_open == <<91, 114, 98, 112, 32, 45, 32>>
Str_close == <<93>>
Str_body == <<98, 111, 100, 121>>
Str_cond == <<99, 111, 110, 100>>

LabelLine(l) == [label |-> l]
Ins(m, o) == [mn |-> m, ops |-> o]
Reg(r) == [reg |-> r]
Txt(t) == [txt |-> t]
CommentLine == [comment |-> "missing jump target"]

write(C, lines) == [C EXCEPT !.out = @ \o lines]

\* "[rbp - " + std::to_string(off) + "]"
rbp_operand(off) == Str_rbp_open \o to_string(off) \o Str_close

\* returns [c |-> the emitter after the call, loc |-> the operand text]
get_loc(C, name) ==
    IF name = Str_empty THEN [c |-> C, loc |-> Str_0]
    ELSE IF all_digits(name) THEN [c |-> C, loc |-> name]
    ELSE IF name \in C.labels_ THEN [c |-> C, loc |-> name]
    ELSE IF name \in DOMAIN C.var_offsets_
         THEN [c |-> C, loc |-> rbp_operand(C.var_offsets_[name])]
    ELSE LET newOff == C.stack_offset_ + 8 IN
         [c |-> [C EXCEPT !.stack_offset_ = newOff,
                          !.var_offsets_ = table_set(@, name, newOff)],
          loc |-> rbp_operand(newOff)]

\* lbl.find(substr) != std::string::npos
contains(lbl, substr) ==
    \E i \in 1..(Len(lbl) - Len(substr) + 1) :
        SubSeq(lbl, i, i + Len(substr) - 1) = substr

find_label_with_substr(C, substr) ==
    LET hits == {i \in 1..Len(C.block_labels_) : contains(C.block_labels_[i], substr)}
    IN IF hits = {} THEN Str_empty
       ELSE C.block_labels_[CHOOSE i \in hits : \A j \in hits : i <= j]

\* block_index_ holds 0-based indices; block_labels_ is 1-based here
infer_target_label_for_current_block(C) ==
    LET found == find_label_with_substr(C, Str_cond)
        idx == C.block_index_[C.current_block_label_]
    IN IF contains(C.current_block_label_, Str_body) /\ found # Str_empty THEN found
       ELSE IF idx + 1 < Len(C.block_labels_) THEN C.block_labels_[idx + 2]
       ELSE Str_empty

\* std::sort of the strings of a set: ascending by operator<
RECURSIVE sorted(_)
sorted(S) ==
    IF S = {} THEN <<>>
    ELSE LET m == CHOOSE x \in S : \A y \in S \ {x} : str_less(x, y)
         IN <<m>> \o sorted(S \ {m})

\* the names of one instruction that allocate_stack inserts into all_vars
instr_vars(C, instr) ==
    (IF instr.result # Str_empty /\ instr.result \notin C.labels_
     THEN {instr.result} ELSE {})
    \cup
    (IF instr.operand1 # Str_empty /\ ~all_digits(instr.operand1)
        /\ instr.operand1 \notin C.labels_
     THEN {instr.operand1} ELSE {})
    \cup
    (IF instr.operand2 # Str_empty /\ ~all_digits(instr.operand2)
        /\ instr.operand2 \notin C.labels_
     THEN {instr.operand2} ELSE {})

all_vars(C, func) ==
    {func.parameters[i].name : i \in 1..Len(func.parameters)}
    \cup
    UNION {UNION {instr_vars(C, func.blocks[b].instructions[i]) :
                      i \in 1..Len(func.blocks[b].instructions)} :
               b \in 1..Len(func.blocks)}

\* offset += 8; var_offsets_[name] = offset, for every name in order
RECURSIVE assign_offsets(_, _, _)
assign_offsets(offsets, offset, names) ==
    IF names = <<>> THEN [var_offsets_ |-> offsets, offset |-> offset]
    ELSE assign_offsets(table_set(offsets, Head(names), offset + 8), offset + 8,
                        Tail(names))

\* stack_offset_ = offset, rounded up to a multiple of 16
set_frame(C, l) ==
    [C EXCEPT !.var_offsets_ = l.var_offsets_,
              !.stack_offset_ = IF l.offset % 16 # 0
                                THEN ((l.offset + 15) \div 16) * 16
                                ELSE l.offset]

allocate_locals(p, locals) == assign_offsets(p.var_offsets_, p.offset, locals)

allocate_names(C, params, names) ==
    set_frame(C, allocate_locals(assign_offsets(C.var_offsets_, 0, params),
                                 sorted(names \ {params[i] : i \in 1..Len(params)})))

allocate_stack(C, func) ==
    allocate_names(C, [i \in 1..Len(func.parameters) |-> func.parameters[i].name],
                   all_vars(C, func))

\* mov rax, A ; <mn> rax, B ; mov R, rax
arith(mn, res_loc, op1_loc, op2_loc) ==
    <<Ins("mov", <<Reg("rax"), Txt(op1_loc)>>),
      Ins(mn, <<Reg("rax"), Txt(op2_loc)>>),
      Ins("mov", <<Txt(res_loc), Reg("rax")>>)>>

\* mov rax, A ; cmp rax, B ; <set> al ; movzx rax, al ; mov R, rax
compare(set, res_loc, op1_loc, op2_loc) ==
    <<Ins("mov", <<Reg("rax"), Txt(op1_loc)>>),
      Ins("cmp", <<Reg("rax"), Txt(op2_loc)>>),
      Ins(set, <<Reg("al")>>),
      Ins("movzx", <<Reg("rax"), Reg("al")>>),
      Ins("mov", <<Txt(res_loc), Reg("rax")>>)>>

\* mutation: no jmp is written, the next block is reached by falling through
jump_lines_falls_through(target) ==
    IF target = Str_empty THEN <<CommentLine>> ELSE <<>>

\* jmp <target>, or the comment when no target was found
jump_lines(target) ==
    IF target = Str_empty THEN <<CommentLine>> ELSE <<Ins("jmp", <<Txt(target)>>)>>

cond_jump_to(jcc, op1_loc, target) ==
    <<Ins("mov", <<Reg("rax"), Txt(op1_loc)>>),
      Ins("cmp", <<Reg("rax"), Txt(Str_0)>>),
      IF target = Str_empty THEN CommentLine ELSE Ins(jcc, <<Txt(target)>>)>>

\* JUMPIF / JUMPIFNOT: the test of the condition, then the branch or a comment
cond_jump(C, jcc, op1_loc, operand2) ==
    cond_jump_to(jcc, op1_loc,
                 IF operand2 = Str_empty
                 THEN infer_target_label_for_current_block(C) ELSE operand2)

ControlOpcodes == {"JUMP", "JUMPIF", "JUMPIFNOT", "RETURN"}

\* the switch over instr.opcode: the lines one instruction writes
instruction_lines(C, instr, res_loc, op1_loc, op2_loc) ==
    CASE instr.opcode = "ASSIGN" ->
           IF all_digits(instr.operand1)
           THEN IF contains(res_loc, SubSeq(Str_rbp_open, 1, 4))
                THEN <<Ins("mov qword", <<Txt(res_loc), Txt(instr.operand1)>>)>>
                ELSE <<Ins("mov", <<Txt(res_loc), Txt(instr.operand1)>>)>>
           ELSE <<Ins("mov", <<Reg("rax"), Txt(op1_loc)>>),
                  Ins("mov", <<Txt(res_loc), Reg("rax")>>)>>
      [] instr.opcode = "ADD" -> arith("add", res_loc, op1_loc, op2_loc)
      [] instr.opcode = "SUB" -> arith("sub", res_loc, op1_loc, op2_loc)
      [] instr.opcode = "MUL" -> arith("imul", res_loc, op1_loc, op2_loc)
      [] instr.opcode = "DIV" ->
           <<Ins("mov", <<Reg("rax"), Txt(op1_loc)>>),
             Ins("cqo", <<>>),
             Ins("mov", <<Reg("rbx"), Txt(op2_loc)>>),
             Ins("idiv", <<Reg("rbx")>>),
             Ins("mov", <<Txt(res_loc), Reg("rax")>>)>>
      [] instr.opcode = "NEG" ->
           <<Ins("mov", <<Reg("rax"), Txt(op1_loc)>>),
             Ins("neg", <<Reg("rax")>>),
             Ins("mov", <<Txt(res_loc), Reg("rax")>>)>>
      [] instr.opcode = "NOT" ->
           <<Ins("mov", <<Reg("rax"), Txt(op1_loc)>>),
             Ins("test", <<Reg("rax"), Reg("rax")>>),
             Ins("setz", <<Reg("al")>>),
             Ins("movzx", <<Reg("rax"), Reg("al")>>),
             Ins("mov", <<Txt(res_loc), Reg("rax")>>)>>
      [] instr.opcode = "EQ" -> compare("sete", res_loc, op1_loc, op2_loc)
      [] instr.opcode = "NEQ" -> compare("setne", res_loc, op1_loc, op2_loc)
      [] instr.opcode = "LT" -> compare("setl", res_loc, op1_loc, op2_loc)
      [] instr.opcode = "GT" -> compare("setg", res_loc, op1_loc, op2_loc)
      [] instr.opcode = "LE" -> compare("setle", res_loc, op1_loc, op2_loc)
      [] instr.opcode = "GE" -> compare("setge", res_loc, op1_loc, op2_loc)
      [] instr.opcode = "JUMP" ->
           jump_lines(IF instr.operand1 = Str_empty
                      THEN infer_target_label_for_current_block(C)
                      ELSE instr.operand1)
      [] instr.opcode = "JUMPIF" -> cond_jump(C, "jne", op1_loc, instr.operand2)
      [] instr.opcode = "JUMPIFNOT" -> cond_jump(C, "je", op1_loc, instr.operand2)
      [] instr.opcode = "RETURN" ->
           (IF instr.operand1 # Str_empty
            THEN <<Ins("mov", <<Reg("rax"), Txt(op1_loc)>>)>> ELSE <<>>)
           \o <<Ins("jmp", <<Txt(C.current_function_ \o Str_epilogue_sfx)>>)>>

\* the switch, its default: throw, and the update of last_written_loc_ after it
emit_located(C, instr, res_loc, op1_loc, op2_loc) ==
    IF instr.opcode \notin KnownOpcodes
    THEN [C EXCEPT !.thrown = "Unsupported IR opcode in NASM codegen"]
    ELSE [write(C, instruction_lines(C, instr, res_loc, op1_loc, op2_loc))
             EXCEPT !.last_written_loc_ =
                IF instr.result # Str_empty /\ instr.opcode \notin ControlOpcodes
                THEN res_loc ELSE @]

\* a conditional jump on an empty or "0" condition tests last_written_loc_
condition_loc(C, instr, op1_loc) ==
    IF instr.opcode \in {"JUMPIF", "JUMPIFNOT"}
       /\ (instr.operand1 = Str_empty \/ op1_loc = Str_0)
       /\ C.last_written_loc_ # Str_empty
    THEN C.last_written_loc_ ELSE op1_loc

\* res_loc, op1_loc and op2_loc are looked up in this order, each on the
\* emitter the lookup before it left
emit_with_locs(r, a, b, instr) ==
    emit_located(b.c, instr, r.loc, condition_loc(b.c, instr, a.loc), b.loc)

emit_after_op1(r, a, instr) == emit_with_locs(r, a, get_loc(a.c, instr.operand2), instr)

emit_after_res(r, instr) == emit_after_op1(r, get_loc(r.c, instr.operand1), instr)

emit_instruction(C0, instr) == emit_after_res(get_loc(C0, instr.result), instr)

RECURSIVE emit_instructions(_, _)
emit_instructions(C, instrs) ==
    IF instrs = <<>> \/ C.thrown # "" THEN C
    ELSE emit_instructions(emit_instruction(C, Head(instrs)), Tail(instrs))

\* after the instructions: jmp to the next block unless the last one transfers
close_block(C, block) ==
    IF C.thrown # "" THEN C
    ELSE IF /\ \/ block.instructions = <<>>
               \/ block.instructions[Len(block.instructions)].opcode
                      \notin ControlOpcodes
            /\ C.block_index_[C.current_block_label_] + 1 < Len(C.block_labels_)
    THEN write(C, <<Ins("jmp", <<Txt(C.block_labels_[
                        C.block_index_[C.current_block_label_] + 2])>>)>>)
    ELSE C

emit_block(C0, block) ==
    close_block(
        emit_instructions(write([C0 EXCEPT !.current_block_label_ = block.label],
                                <<LabelLine(block.label)>>),
                          block.instructions),
        block)

RECURSIVE emit_blocks(_, _)
emit_blocks(C, blocks) ==
    IF blocks = <<>> \/ C.thrown # "" THEN C
    ELSE emit_blocks(emit_block(C, Head(blocks)), Tail(blocks))

param_regs == <<"rdi", "rsi", "rdx", "rcx", "r8", "r9">>

\* block_index_[lbl] = i for i ascending: the last block of a label wins
block_index_of(labels) ==
    [l \in {labels[i] : i \in 1..Len(labels)} |->
        (CHOOSE i \in 1..Len(labels) :
            labels[i] = l /\ \A j \in 1..Len(labels) : labels[j] = l => j <= i) - 1]

\* the per-function members are reset and the block labels recorded
enter_function(C0, lbls, func) ==
    [C0 EXCEPT !.current_function_ = func.name,
               !.stack_offset_ = 0,
               !.var_offsets_ = <<>>,
               !.block_labels_ = lbls,
               !.block_index_ = block_index_of(lbls),
               !.labels_ = {lbls[i] : i \in 1..Len(lbls)},
               !.last_written_loc_ = Str_empty]

\* the label, the frame set-up and the moves of the register parameters
emit_prologue(C, func) ==
    write(C,
          <<LabelLine(func.name),
            Ins("push", <<Reg("rbp")>>),
            Ins("mov", <<Reg("rbp"), Reg("rsp")>>)>>
          \o (IF C.stack_offset_ > 0
              THEN <<Ins("sub", <<Reg("rsp"), Txt(to_string(C.stack_offset_))>>)>>
              ELSE <<>>)
          \o [i \in 1..(IF Len(func.parameters) < 6 THEN Len(func.parameters) ELSE 6) |->
                Ins("mov", <<Txt(rbp_operand(C.var_offsets_[func.parameters[i].name])),
                             Reg(param_regs[i])>>)])

\* the epilogue; frames_ is history: where the function's text begins, the
\* frame its prologue reserved and the offsets it ended with
emit_epilogue(C, first, reserved) ==
    IF C.thrown # "" THEN C
    ELSE write([C EXCEPT !.frames_ =
                   Append(@, [first |-> first, reserved |-> reserved,
                              var_offsets_ |-> C.var_offsets_])],
               <<LabelLine(C.current_function_ \o Str_epilogue_sfx),
                 Ins("leave", <<>>),
                 Ins("ret", <<>>)>>)

emit_allocated(C, func, first) ==
    emit_epilogue(emit_blocks(emit_prologue(C, func), func.blocks), first,
                  C.stack_offset_)

emit_function(C0, func) ==
    emit_allocated(
        allocate_stack(
            enter_function(C0, [i \in 1..Len(func.blocks) |-> func.blocks[i].label],
                           func),
            func),
        func, Len(C0.out) + 1)

RECURSIVE emit_program(_, _)
emit_program(C, functions) ==
    IF functions = <<>> \/ C.thrown # "" THEN C
    ELSE emit_program(emit_function(C, Head(functions)), Tail(functions))

\* CodeGenerator::CodeGenerator
CodeGenerator ==
    [current_function_ |-> Str_empty, current_block_label_ |-> Str_empty,
     stack_offset_ |-> 0, var_offsets_ |-> <<>>, block_labels_ |-> <<>>,
     block_index_ |-> <<>>, labels_ |-> {}, last_written_loc_ |-> Str_empty,
     out |-> <<>>, thrown |-> "", frames_ |-> <<>>]

\* CodeGenerator::generate: the preamble, then every function
cg_generate(ir_program) ==
    emit_program(
        write(CodeGenerator,
              <<Ins("section", <<Txt(<<46, 100, 97, 116, 97>>)>>),
                Ins("section", <<Txt(<<46, 116, 101, 120, 116>>)>>),
                Ins("global", <<Txt(Str_start)>>),
                LabelLine(Str_start),
                Ins("call", <<Txt(Str_main)>>),
                Ins("mov", <<Reg("rdi"), Reg("rax")>>),
                Ins("mov", <<Reg("rax"), Txt(Str_60)>>),
                Ins("syscall", <<>>)>>),
        ir_program.functions)

\* CodeGenerator::generate with a file name: is_open is the outcome of
\* file.open, good the state of the stream after the flush
generate_to_file(ir_program, is_open, good) ==
    IF ~is_open THEN [CodeGenerator EXCEPT !.thrown = "Could not open output file"]
    ELSE LET C == cg_generate(ir_program)
         IN IF C.thrown = "" /\ ~good
            THEN [C EXCEPT !.thrown = "Failed while writing to output stream/file."]
            ELSE C

(***************************************************************************)
(* Lexer (Lexer.cpp)                                                       *)
(*                                                                         *)
(* The lexer L holds source_, pos_ (0-based), line_ and column_; `thrown`  *)
(* is the exception in flight.  A token carries its type, its value (the   *)
(* variant: [int |-> n] or [str |-> s]), line and column; `offset` is a    *)
(* history field, the value of pos_ where the token's position was read.   *)
(* Characters are their codes; the '\0' that peek returns at the end is 0. *)
(***************************************************************************)
isdigit(c) == c \in 48..57
isalpha(c) == c \in 65..90 \/ c \in 97..122
isalnum(c) == isalpha(c) \/ isdigit(c)

Lexer(source) ==
    [source_ |-> source, pos_ |-> 0, line_ |-> 1, column_ |-> 1, thrown |-> ""]

peek(L) == IF L.pos_ < Len(L.source_) THEN L.source_[L.pos_ + 1] ELSE 0

peek_next(L) == IF L.pos_ + 1 < Len(L.source_) THEN L.source_[L.pos_ + 2] ELSE 0

\* the character consumed is peek(L) of the lexer before the call
advance(L) ==
    IF L.pos_ < Len(L.source_)
    THEN IF L.source_[L.pos_ + 1] = 10
         THEN [L EXCEPT !.pos_ = @ + 1, !.line_ = @ + 1, !.column_ = 1]
         ELSE [L EXCEPT !.pos_ = @ + 1, !.column_ = @ + 1]
    ELSE L

is_at_end(L) == L.pos_ >= Len(L.source_)

make_token(L, type, value) ==
    [type |-> type, value |-> value, line |-> L.line_, column |-> L.column_,
     offset |-> L.pos_]

\* the token of a call that ended in an exception
NoToken == [type |-> "none", value |-> [int |-> 0], line |-> 0, column |-> 0, offset |-> 0]

RECURSIVE skip_whitespace(_)
skip_whitespace(L) ==
    IF peek(L) \in {32, 9, 13} THEN skip_whitespace(advance(L)) ELSE L

\* while (peek() != '\n' && !is_at_end()) advance();
RECURSIVE skip_line_comment(_)
skip_line_comment(L) ==
    IF peek(L) # 10 /\ ~is_at_end(L) THEN skip_line_comment(advance(L)) ELSE L

\* advance up to the closing * / or the end, then over the two closing characters
RECURSIVE skip_block_comment(_)
skip_block_comment(L) ==
    IF ~(peek(L) = 42 /\ L.pos_ + 1 < Len(L.source_) /\ peek_next(L) = 47)
       /\ ~is_at_end(L)
    THEN skip_block_comment(advance(L))
    ELSE IF ~is_at_end(L) THEN advance(advance(L)) ELSE L

skip_comment(L) ==
    IF peek(L) = 47 /\ L.pos_ + 1 < Len(L.source_) /\ peek_next(L) = 47
    THEN skip_line_comment(L)
    ELSE IF peek(L) = 47 /\ L.pos_ + 1 < Len(L.source_) /\ peek_next(L) = 42
    THEN skip_block_comment(advance(advance(L)))
    ELSE L

\* the lexer after the loop of scan_identifier
RECURSIVE identifier_end(_)
identifier_end(L) ==
    IF ~is_at_end(L) /\ (isalnum(peek(L)) \/ peek(L) \in {95, 36})
    THEN identifier_end(advance(L))
    ELSE L

\* the keyword table: int, void, if, else, while, return, string
keyword_type(identifier) ==
    CASE identifier = <<105, 110, 116>> -> KEYWORD_INT
      [] identifier = <<118, 111, 105, 100>> -> KEYWORD_VOID
      [] identifier = <<105, 102>> -> "KEYWORD_IF"
      [] identifier = <<101, 108, 115, 101>> -> "KEYWORD_ELSE"
      [] identifier = <<119, 104, 105, 108, 101>> -> "KEYWORD_WHILE"
      [] identifier = <<114, 101, 116, 117, 114, 110>> -> "KEYWORD_RETURN"
      [] identifier = <<115, 116, 114, 105, 110, 103>> -> KEYWORD_STR
      [] OTHER -> "IDENTIFIER"

\* token.value is set for an IDENTIFIER only; a keyword keeps the empty variant
identifier_token(L, identifier) ==
    make_token(L, keyword_type(identifier),
               IF keyword_type(identifier) = "IDENTIFIER"
               THEN [str |-> identifier] ELSE [int |-> 0])

scan_identifier_to(L, E) ==
    [l |-> E, tok |-> identifier_token(L, SubSeq(L.source_, L.pos_ + 1, E.pos_))]

scan_identifier(L) == scan_identifier_to(L, identifier_end(L))

RECURSIVE number_end(_)
number_end(L) ==
    IF ~is_at_end(L) /\ isdigit(peek(L)) THEN number_end(advance(L)) ELSE L

\* one more digit d after the value v; -1 stands for a value above INT_MAX
stoi_digit(v, d) ==
    IF v = -1 \/ v > 214748364 \/ (v = 214748364 /\ d > 7) THEN -1 ELSE 10 * v + d

\* the value of a string of decimal digits, digit after digit
RECURSIVE stoi_digits(_)
stoi_digits(num) ==
    IF num = <<>> THEN 0
    ELSE stoi_digit(stoi_digits(SubSeq(num, 1, Len(num) - 1)), num[Len(num)] - 48)

\* std::stoi on the digits collected: -2 stands for std::invalid_argument (no
\* digit to convert), -1 for std::out_of_range
stoi(num) == IF num = <<>> THEN -2 ELSE stoi_digits(num)

\* std::invalid_argument is caught and thrown again as the runtime_error
\* "Invalid number literal"; std::out_of_range is not caught and leaves as it is
number_token(L, E, value) ==
    IF value = -2 THEN [l |-> Throw(E, "Invalid number literal"), tok |-> NoToken]
    ELSE IF value = -1 THEN [l |-> Throw(E, "stoi"), tok |-> NoToken]
    ELSE [l |-> E, tok |-> make_token(L, "LITERAL_INT", [int |-> value])]

scan_number_to(L, E) == number_token(L, E, stoi(SubSeq(L.source_, L.pos_ + 1, E.pos_)))

scan_number(L) == scan_number_to(L, number_end(L))

\* the switch over the character after a backslash; -1 is the default: throw
escape(esc) ==
    CASE esc = 110 -> 10
      [] esc = 116 -> 9
      [] esc = 114 -> 13
      [] esc = 98 -> 8
      [] esc = 34 -> 34
      [] esc = 92 -> 92
      [] OTHER -> -1

\* the loop of scan_string after the opening quote: [l, str]
RECURSIVE string_body(_, _)
string_body(L, str) ==
    IF is_at_end(L) THEN [l |-> Throw(L, "Unclosed string literal"), str |-> str]
    ELSE IF peek(L) = 34 THEN [l |-> advance(L), str |-> str]
    ELSE IF peek(L) = 92
    THEN IF is_at_end(advance(L))
         THEN [l |-> Throw(advance(L), "Unterminated escape sequence"), str |-> str]
         ELSE IF escape(peek(advance(L))) = -1
         THEN [l |-> Throw(advance(advance(L)), "Unknown escape sequence"), str |-> str]
         ELSE string_body(advance(advance(L)), Append(str, escape(peek(advance(L)))))
    ELSE string_body(advance(L), Append(str, peek(L)))

\* mutation: the token takes the position the lexer has after the closing quote
scan_string_positioned_at_end(L, r) ==
    [l |-> r.l,
     tok |-> IF r.l.thrown # "" THEN NoToken
             ELSE make_token(r.l, "LITERAL_STRING", [str |-> r.str])]

\* token.line and token.column are set from start_line and start_column
scan_string_from(L, r) ==
    [l |-> r.l,
     tok |-> IF r.l.thrown # "" THEN NoToken
             ELSE make_token(L, "LITERAL_STRING", [str |-> r.str])]

scan_string(L) == scan_string_from(L, string_body(advance(L), <<>>))

one_char(L, type) == [l |-> advance(L), tok |-> make_token(L, type, [int |-> 0])]

two_chars(L, type) ==
    [l |-> advance(advance(L)), tok |-> make_token(L, type, [int |-> 0])]

\* the switch of next_token over the current character
punctuation(L, current) ==
    CASE current = 123 -> one_char(L, "LBRACE")
      [] current = 125 -> one_char(L, "RBRACE")
      [] current = 59 -> one_char(L, "SEMICOLON")
      [] current = 40 -> one_char(L, "LPAREN")
      [] current = 41 -> one_char(L, "RPAREN")
      [] current = 10 -> one_char(L, "NEWLINE")
      [] current = 43 -> one_char(L, OP_PLUS)
      [] current = 45 -> one_char(L, OP_MINUS)
      [] current = 42 -> one_char(L, OP_MULTIPLY)
      [] current = 47 -> one_char(L, OP_DIVIDE)
      [] current = 60 -> IF peek_next(L) = 61 THEN two_chars(L, OP_LESS_EQ)
                         ELSE one_char(L, OP_LESS)
      [] current = 62 -> IF peek_next(L) = 61 THEN two_chars(L, OP_GREATER_EQ)
                         ELSE one_char(L, OP_GREATER)
      [] current = 58 -> one_char(L, "COLON")
      [] current = 44 -> one_char(L, "COMMA")
      [] current = 33 -> IF peek_next(L) = 61 THEN two_chars(L, OP_NOT_EQUAL)
                         ELSE one_char(L, OP_NOT)
      [] current = 61 -> IF L.pos_ + 1 < Len(L.source_) /\ peek_next(L) = 61
                         THEN two_chars(L, OP_EQUAL)
                         ELSE one_char(L, OP_ASSIGN)
      [] OTHER -> [l |-> Throw(L, "Unexpected character"), tok |-> NoToken]

\* next_token after its call of skip_whitespace: [l, tok]
RECURSIVE next_token_at(_)
next_token_at(L) ==
    IF is_at_end(L) THEN [l |-> L, tok |-> make_token(L, "END_OF_FILE", [int |-> 0])]
    ELSE IF peek(L) = 47 /\ L.pos_ + 1 < Len(L.source_) /\ peek_next(L) \in {47, 42}
    THEN next_token_at(skip_whitespace(skip_comment(L)))
    ELSE IF isdigit(peek(L)) THEN scan_number(L)
    ELSE IF isalpha(peek(L)) \/ peek(L) = 95 THEN scan_identifier(L)
    ELSE IF peek(L) = 34 THEN scan_string(L)
    ELSE IF peek(L) \in {32, 9, 13} THEN next_token_at(skip_whitespace(advance(L)))
    ELSE punctuation(L, peek(L))

next_token(L) == next_token_at(skip_whitespace(L))

\* tokens.push_back(make_token(TokenType::END_OF_FILE, {})); return tokens;
lex_return(L, tokens) ==
    [l |-> L, tokens |-> Append(tokens, make_token(L, "END_OF_FILE", [int |-> 0]))]

RECURSIVE lex_loop(_, _)
\* mutation: the END_OF_FILE that next_token returns is pushed like any token
lex_keep_every_token(r, tokens) ==
    IF r.l.thrown # "" THEN [l |-> r.l, tokens |-> tokens]
    ELSE lex_loop(r.l, Append(tokens, r.tok))

\* the body of the loop of Lex, given the outcome r of next_token
lex_body(r, tokens) ==
    IF r.l.thrown # "" THEN [l |-> r.l, tokens |-> tokens]
    ELSE IF r.tok.type = "END_OF_FILE" THEN lex_return(r.l, tokens)
    ELSE lex_loop(r.l, Append(tokens, r.tok))

lex_loop(L, tokens) ==
    IF is_at_end(L) THEN lex_return(L, tokens)
    ELSE lex_body(next_token(L), tokens)

\* Lexer::Lex: [l |-> the lexer after the call, tokens]; l.thrown is the exception
Lex(L) == lex_loop(L, <<>>)

(***************************************************************************)
(* The indentation-tracking lexer (the second Lexer.cpp)                   *)
(*                                                                         *)
(* peek, advance, is_at_end, skip_whitespace, skip_comment, scan_identifier, *)
(* scan_number and make_token are the same code as above.  The lexer holds *)
(* in addition indent_levels_ (the stack, its top last) and                *)
(* pending_dedents, the function-local static deque of handle_indentation, *)
(* empty when the first lexer of a process is made.                        *)
(***************************************************************************)
TAB_WIDTH == 4

Lexer_indent(source) ==
    [source_ |-> source, pos_ |-> 0, line_ |-> 1, column_ |-> 1, thrown |-> "",
     indent_levels_ |-> <<0>>, pending_dedents |-> <<>>, returns_ |-> <<>>]

top(stack) == stack[Len(stack)]

\* pending_dedents.front(); pending_dedents.pop_front(); return t;
pop_pending(L) ==
    [l |-> [L EXCEPT !.pending_dedents = Tail(@)], tok |-> Head(L.pending_dedents)]

\* while (peek() == '\n' && !is_at_end()) advance();
RECURSIVE skip_blank_lines(_)
skip_blank_lines(L) ==
    IF peek(L) = 10 /\ ~is_at_end(L) THEN skip_blank_lines(advance(L)) ELSE L

\* the pops of a smaller indentation: one DEDENT queued for every level left
RECURSIVE pop_levels(_, _)
pop_levels(L, indent) ==
    IF L.indent_levels_ # <<>> /\ indent < top(L.indent_levels_)
    THEN pop_levels([L EXCEPT !.indent_levels_ = SubSeq(@, 1, Len(@) - 1),
                              !.pending_dedents =
                                  Append(@, make_token(L, "DEDENT", [str |-> <<>>]))],
                    indent)
    ELSE L

\* after the pops: the level reached must be the new indentation
dedent_end(L, indent) ==
    IF L.indent_levels_ = <<>> \/ indent # top(L.indent_levels_)
    THEN [l |-> Throw(L, "Invalid dedent"), tok |-> NoToken]
    ELSE pop_pending(L)

\* the indentation counted is compared with the top of the stack
compare_indentation(L, indent) ==
    IF is_at_end(L) \/ peek(L) = 10
    THEN [l |-> L, tok |-> make_token(L, "NEWLINE", [str |-> <<>>])]
    ELSE IF L.indent_levels_ = <<>>
    THEN [l |-> Throw(L, "Internal lexer error: empty indent stack"), tok |-> NoToken]
    ELSE IF indent > top(L.indent_levels_)
    THEN [l |-> [L EXCEPT !.indent_levels_ = Append(@, indent)],
          tok |-> make_token(L, "INDENT", [str |-> <<>>])]
    ELSE IF indent < top(L.indent_levels_) THEN dedent_end(pop_levels(L, indent), indent)
    ELSE [l |-> L, tok |-> make_token(L, "NEWLINE", [str |-> <<>>])]

RECURSIVE count_indentation(_, _, _, _)
\* the loop over the spaces and tabs at the start of the line
count_indentation(L, indent, has_tab, has_space) ==
    IF ~is_at_end(L) /\ peek(L) \in {32, 9}
    THEN IF (has_tab \/ peek(L) = 9) /\ (has_space \/ peek(L) = 32)
         THEN [l |-> Throw(advance(L), "Mixed tabs and spaces"), tok |-> NoToken]
         ELSE count_indentation(advance(L),
                                indent + (IF peek(L) = 32 THEN 1 ELSE TAB_WIDTH),
                                has_tab \/ peek(L) = 9, has_space \/ peek(L) = 32)
    ELSE compare_indentation(L, indent)

\* the body of handle_indentation: a queued DEDENT first, else the newline is
\* consumed and the indentation of the next line compared
indentation_token(L) ==
    IF L.pending_dedents # <<>> THEN pop_pending(L)
    ELSE count_indentation(skip_blank_lines(IF peek(L) = 10 THEN advance(L) ELSE L),
                           0, FALSE, FALSE)

\* returns_ is a history field: for every call of handle_indentation that
\* returned, the token type, indent_levels_ and the length of the queue
returned(r) ==
    IF r.l.thrown # "" THEN r
    ELSE [r EXCEPT !.l.returns_ =
                       Append(@, [tok |-> r.tok.type, levels |-> r.l.indent_levels_,
                                  pending |-> Len(r.l.pending_dedents)])]

\* Lexer::handle_indentation, called with peek() = '\n': [l, tok]
handle_indentation(L) == returned(indentation_token(L))

\* the loop of scan_string: no escape sequences
RECURSIVE string_end_indent(_)
string_end_indent(L) ==
    IF ~is_at_end(L) /\ peek(L) # 34 THEN string_end_indent(advance(L)) ELSE L

\* S is the lexer after the opening quote, where the token is made
string_token_indent(S, E) ==
    IF ~is_at_end(E)
    THEN [l |-> advance(E),
          tok |-> make_token(S, "LITERAL_STRING",
                             [str |-> SubSeq(S.source_, S.pos_ + 1, E.pos_)])]
    ELSE [l |-> Throw(E, "Unclosed string literal"), tok |-> NoToken]

scan_string_indent(L) == string_token_indent(advance(L), string_end_indent(advance(L)))

\* the switch of next_token over the current character
punctuation_indent(L, current) ==
    CASE current = 40 -> one_char(L, "LPAREN")
      [] current = 41 -> one_char(L, "RPAREN")
      [] current = 10 -> handle_indentation(L)
      [] current = 43 -> one_char(L, OP_PLUS)
      [] current = 45 -> one_char(L, OP_MINUS)
      [] current = 42 -> one_char(L, OP_MULTIPLY)
      [] current = 47 -> one_char(L, OP_DIVIDE)
      [] current = 60 -> one_char(L, OP_LESS)
      [] current = 62 -> one_char(L, OP_GREATER)
      [] current = 58 -> one_char(L, "COLON")
      [] current = 44 -> one_char(L, "COMMA")
      [] current = 61 -> IF L.pos_ + 1 < Len(L.source_) /\ peek_next(L) = 61
                         THEN two_chars(L, OP_EQUAL)
                         ELSE one_char(L, OP_ASSIGN)
      [] OTHER -> [l |-> Throw(L, "Unexpected character"), tok |-> NoToken]

\* next_token after its call of skip_whitespace: [l, tok]
RECURSIVE next_token_at_indent(_)
next_token_at_indent(L) ==
    IF is_at_end(L) THEN [l |-> L, tok |-> make_token(L, "END_OF_FILE", [int |-> 0])]
    ELSE IF peek(L) = 47 /\ L.pos_ + 1 < Len(L.source_) /\ peek_next(L) \in {47, 42}
    THEN next_token_at_indent(skip_whitespace(skip_comment(L)))
    ELSE IF isdigit(peek(L)) THEN scan_number(L)
    ELSE IF isalpha(peek(L)) \/ peek(L) = 95 THEN scan_identifier(L)
    ELSE IF peek(L) = 34 THEN scan_string_indent(L)
    ELSE IF peek(L) \in {32, 9, 13} THEN next_token_at_indent(skip_whitespace(advance(L)))
    ELSE punctuation_indent(L, peek(L))

next_token_indent(L) == next_token_at_indent(skip_whitespace(L))

\* Token { TokenType::NEWLINE, {}, line_ - 1, column_ - 1 }
newline_before(L) ==
    [type |-> "NEWLINE", value |-> [int |-> 0], line |-> L.line_ - 1,
     column |-> L.column_ - 1, offset |-> L.pos_]

\* the body of the loop of Lex, given the outcome r of next_token
RECURSIVE lex_loop_indent(_, _)
lex_body_indent(r, tokens) ==
    IF r.l.thrown # "" THEN [l |-> r.l, tokens |-> tokens]
    ELSE IF r.tok.type = "END_OF_FILE" THEN lex_return(r.l, tokens)
    ELSE IF r.tok.type \in {"INDENT", "DEDENT"}
    THEN lex_loop_indent(r.l, Append(Append(tokens, newline_before(r.l)), r.tok))
    ELSE lex_loop_indent(r.l, Append(tokens, r.tok))

lex_loop_indent(L, tokens) ==
    IF is_at_end(L) THEN lex_return(L, tokens)
    ELSE lex_body_indent(next_token_indent(L), tokens)

\* Lexer::Lex of the indentation-tracking lexer: [l, tokens]
Lex_indent(L) == lex_loop_indent(L, <<>>)

(***************************************************************************)
(* Parser (Parser.cpp)                                                     *)
(*                                                                         *)
(* The parser P holds tokens_ and current_ (0-based); `thrown` is the      *)
(* std::runtime_error in flight.  A parse function returns [p, val]: the   *)
(* parser after the call and the node built; after a throw every further   *)
(* step is skipped.                                                        *)
(***************************************************************************)
Parser(tokens) == [tokens_ |-> tokens, current_ |-> 0, thrown |-> ""]

parser_is_at_end(P) ==
    IF P.tokens_ # <<>>
    THEN P.current_ >= Len(P.tokens_) \/ P.tokens_[P.current_ + 1].type = "END_OF_FILE"
    ELSE TRUE

\* peek() away from the end; at the end peek() throws "No current token"
parser_peek(P) == P.tokens_[P.current_ + 1]

\* the message of a throw whose text reads peek().line
error_at_peek(P, error) == IF parser_is_at_end(P) THEN "No current token" ELSE error

\* advance(): [p, tok]; previous() throws when nothing has been consumed
parser_step(P) ==
    IF P.current_ > 0 THEN [p |-> P, tok |-> P.tokens_[P.current_]]
    ELSE [p |-> Throw(P, "No previous token"), tok |-> NoToken]

parser_advance(P) ==
    parser_step(IF ~parser_is_at_end(P) THEN [P EXCEPT !.current_ = @ + 1] ELSE P)

check(P, type) == ~parser_is_at_end(P) /\ parser_peek(P).type = type

consume(P, type, error) ==
    IF check(P, type) THEN parser_advance(P)
    ELSE [p |-> Throw(P, error_at_peek(P, error)), tok |-> NoToken]

\* if (check(type)) advance();
skip_optional(P, type) == IF check(P, type) THEN parser_advance(P).p ELSE P

\* while (check(TokenType::NEWLINE)) advance();
RECURSIVE skip_newlines(_)
skip_newlines(P) ==
    IF P.thrown = "" /\ check(P, "NEWLINE") THEN skip_newlines(parser_advance(P).p) ELSE P

Failed(r) == r.p.thrown # ""

\* std::make_unique<BinaryExpr>(std::move(expr), op.type, std::move(right))
binary_join(left, op, r) ==
    IF Failed(r) THEN r ELSE [p |-> r.p, val |-> BinaryExpr(left, op, r.val)]

\* std::make_unique<UnaryExpr>(op.type, std::move(operand))
unary_join(op, r) ==
    IF Failed(r) THEN r ELSE [p |-> r.p, val |-> UnaryExpr(op, r.val)]

\* the node is built once the closing token has been consumed: the exception
\* of consume leaves no node
finish_stmt(c, stmt) == [p |-> c.p, val |-> IF Failed(c) THEN NoExpr ELSE stmt]

\* consume(TokenType::RPAREN, ...) after the expression in parentheses
close_paren(r) ==
    IF Failed(r) THEN r
    ELSE finish_stmt(consume(r.p, "RPAREN", "Expected ')' after expression"), r.val)

RECURSIVE parse_comparison(_)
parse_expression(P) == parse_comparison(P)

RECURSIVE parse_primary(_)
parse_primary(P) ==
    IF check(P, "LPAREN") THEN close_paren(parse_expression(parser_advance(P).p))
    ELSE IF check(P, OP_NOT) \/ check(P, OP_MINUS)
    THEN unary_join(parser_peek(P).type, parse_primary(parser_advance(P).p))
    ELSE IF check(P, "LITERAL_INT")
    THEN [p |-> parser_advance(P).p, val |-> IntLiteral(parser_peek(P).value.int)]
    ELSE IF check(P, "LITERAL_STRING")
    THEN [p |-> parser_advance(P).p, val |-> StringLiteral(parser_peek(P).value.str)]
    ELSE IF check(P, "IDENTIFIER")
    THEN [p |-> parser_advance(P).p, val |-> Identifier(parser_peek(P).value.str)]
    ELSE [p |-> Throw(P, error_at_peek(P, "Expected expression")), val |-> NoExpr]

\* the while loop of parse_factor, given the expression parsed so far
RECURSIVE parse_factor_loop(_)
\* mutation: + is taken at the level of * and /
parse_factor_loop_with_plus(r) ==
    IF Failed(r) THEN r
    ELSE IF check(r.p, OP_MULTIPLY) \/ check(r.p, OP_DIVIDE) \/ check(r.p, OP_PLUS)
    THEN parse_factor_loop(binary_join(r.val, parser_peek(r.p).type,
                                       parse_primary(parser_advance(r.p).p)))
    ELSE r

parse_factor_loop(r) ==
    IF Failed(r) THEN r
    ELSE IF check(r.p, OP_MULTIPLY) \/ check(r.p, OP_DIVIDE)
    THEN parse_factor_loop(binary_join(r.val, parser_peek(r.p).type,
                                       parse_primary(parser_advance(r.p).p)))
    ELSE r

parse_factor(P) == parse_factor_loop(parse_primary(P))

RECURSIVE parse_term_loop(_)
parse_term_loop(r) ==
    IF Failed(r) THEN r
    ELSE IF check(r.p, OP_PLUS) \/ check(r.p, OP_MINUS)
    THEN parse_term_loop(binary_join(r.val, parser_peek(r.p).type,
                                     parse_factor(parser_advance(r.p).p)))
    ELSE r

parse_term(P) == parse_term_loop(parse_factor(P))

RECURSIVE parse_comparison_loop(_)
parse_comparison_loop(r) ==
    IF Failed(r) THEN r
    ELSE IF \/ check(r.p, OP_EQUAL) \/ check(r.p, OP_NOT_EQUAL) \/ check(r.p, OP_LESS)
            \/ check(r.p, OP_LESS_EQ) \/ check(r.p, OP_GREATER)
            \/ check(r.p, OP_GREATER_EQ)
    THEN parse_comparison_loop(binary_join(r.val, parser_peek(r.p).type,
                                           parse_term(parser_advance(r.p).p)))
    ELSE r

parse_comparison(P) == parse_comparison_loop(parse_term(P))

\* return: the value, if any, then ';'
return_value(P) ==
    IF ~check(P, "SEMICOLON") THEN parse_expression(P) ELSE [p |-> P, val |-> NoExpr]

return_end(r) ==
    IF Failed(r) THEN r
    ELSE finish_stmt(consume(r.p, "SEMICOLON", "Expected ';' after return"),
                     ReturnStmt(r.val))

\* after consume(KEYWORD_RETURN): its exception leaves the function
return_keyword(c) ==
    IF Failed(c) THEN [p |-> c.p, val |-> NoExpr]
    ELSE return_end(return_value(c.p))

parse_return_statement(P) ==
    return_keyword(consume(P, "KEYWORD_RETURN", "Expected 'return'"))

assign_end(name, r) ==
    IF Failed(r) THEN r
    ELSE finish_stmt(consume(r.p, "SEMICOLON", "Expected ';' after assignment"),
                     AssignStmt(name.value.str, r.val))

assign_value(name, c) ==
    IF Failed(c) THEN [p |-> c.p, val |-> NoExpr]
    ELSE assign_end(name, parse_expression(c.p))

assign_name(name) ==
    IF Failed(name) THEN [p |-> name.p, val |-> NoExpr]
    ELSE assign_value(name.tok, consume(name.p, OP_ASSIGN, "Expected '='"))

parse_assign_statement(P) == assign_name(consume(P, "IDENTIFIER", "Expected identifier"))

var_decl_end(type, name, r) ==
    IF Failed(r) THEN r
    ELSE finish_stmt(consume(r.p, "SEMICOLON", "Expected ';' after declaration"),
                     VarDeclStmt(type.type, name.value.str, r.val))

var_decl_initializer(P) ==
    IF check(P, OP_ASSIGN) THEN parse_expression(parser_advance(P).p)
    ELSE [p |-> P, val |-> NoExpr]

var_decl_name(type, name) ==
    IF Failed(name) THEN [p |-> name.p, val |-> NoExpr]
    ELSE var_decl_end(type, name.tok, var_decl_initializer(name.p))

var_decl_type(type) ==
    IF Failed(type) THEN [p |-> type.p, val |-> NoExpr]
    ELSE IF type.tok.type \notin TypeTokens
    THEN [p |-> Throw(type.p, "Expected type (int, void, string)"), val |-> NoExpr]
    ELSE var_decl_name(type.tok, consume(type.p, "IDENTIFIER", "Expected variable name"))

parse_var_decl_statement(P) == var_decl_type(parser_advance(P))

RECURSIVE parse_block(_)

\* if: the else branch, when the keyword follows the then block
if_else(P) ==
    IF check(P, "KEYWORD_ELSE") THEN parse_block(parser_advance(P).p)
    ELSE [p |-> P, val |-> <<>>]

if_end(condition, then_branch, r) ==
    IF Failed(r) THEN r
    ELSE [p |-> r.p, val |-> IfStmt(condition, then_branch, r.val)]

if_then(condition, r) ==
    IF Failed(r) THEN r ELSE if_end(condition, r.val, if_else(r.p))

\* after the condition: an optional ')' and the block
if_condition(r) ==
    IF Failed(r) THEN r
    ELSE if_then(r.val, parse_block(skip_optional(r.p, "RPAREN")))

if_keyword(c) ==
    IF Failed(c) THEN [p |-> c.p, val |-> NoExpr]
    ELSE if_condition(parse_expression(skip_optional(c.p, "LPAREN")))

parse_if_statement(P) == if_keyword(consume(P, "KEYWORD_IF", "Expected 'if'"))

while_end(condition, r) ==
    IF Failed(r) THEN r ELSE [p |-> r.p, val |-> WhileStmt(condition, r.val)]

while_condition(r) ==
    IF Failed(r) THEN r
    ELSE while_end(r.val, parse_block(skip_optional(r.p, "RPAREN")))

while_keyword(c) ==
    IF Failed(c) THEN [p |-> c.p, val |-> NoExpr]
    ELSE while_condition(parse_expression(skip_optional(c.p, "LPAREN")))

parse_while_statement(P) == while_keyword(consume(P, "KEYWORD_WHILE", "Expected 'while'"))

parse_statement(P) ==
    IF check(P, "KEYWORD_IF") THEN parse_if_statement(P)
    ELSE IF check(P, "KEYWORD_WHILE") THEN parse_while_statement(P)
    ELSE IF check(P, "KEYWORD_RETURN") THEN parse_return_statement(P)
    ELSE IF check(P, KEYWORD_INT) \/ check(P, KEYWORD_VOID) \/ check(P, KEYWORD_STR)
    THEN parse_var_decl_statement(P)
    ELSE IF check(P, "IDENTIFIER") THEN parse_assign_statement(P)
    ELSE [p |-> Throw(P, error_at_peek(P, "Expected statement")), val |-> NoExpr]

\* the statement loop of parse_block and what follows it
RECURSIVE block_statements(_, _)
block_next(statements, r) ==
    IF Failed(r) THEN [p |-> r.p, val |-> statements]
    ELSE block_statements(skip_newlines(r.p), Append(statements, r.val))

block_close(statements, c) ==
    [p |-> skip_newlines(c.p), val |-> statements]

block_statements(P, statements) ==
    IF ~check(P, "RBRACE") /\ ~parser_is_at_end(P)
    THEN block_next(statements, parse_statement(P))
    ELSE block_close(statements, consume(skip_newlines(P), "RBRACE", "Expected '}'"))

block_open(c) ==
    IF Failed(c) THEN [p |-> c.p, val |-> <<>>]
    ELSE block_statements(skip_newlines(c.p), <<>>)

parse_block(P) == block_open(consume(skip_newlines(P), "LBRACE", "Expected '{'"))

\* the type token of a parameter or of a function
type_token(P, error) ==
    IF check(P, KEYWORD_INT) \/ check(P, KEYWORD_VOID) \/ check(P, KEYWORD_STR)
    THEN parser_advance(P)
    ELSE [p |-> Throw(P, error_at_peek(P, error)), tok |-> NoToken]

\* the do-while loop of parse_parameters
RECURSIVE parameter_list(_, _)
parameter_name(params, type, name) ==
    IF Failed(name) THEN [p |-> name.p, val |-> params]
    ELSE IF check(name.p, "COMMA")
    THEN parameter_list(parser_advance(name.p).p,
                        Append(params, Parameter(type.type, name.tok.value.str)))
    ELSE [p |-> name.p, val |-> Append(params, Parameter(type.type, name.tok.value.str))]

parameter_type(params, type) ==
    IF Failed(type) THEN [p |-> type.p, val |-> params]
    ELSE parameter_name(params, type.tok,
                        consume(type.p, "IDENTIFIER", "Expected parameter name"))

parameter_list(P, params) ==
    parameter_type(params, type_token(P, "Expected parameter type 'int', 'void' or 'str'"))

parse_parameters(P) ==
    IF ~check(P, "RPAREN") THEN parameter_list(P, <<>>) ELSE [p |-> P, val |-> <<>>]

function_body(type, name, parameters, r) ==
    IF Failed(r) THEN r
    ELSE [p |-> r.p, val |-> Function(name.value.str, type.type, parameters, r.val)]

function_close(type, name, parameters, c) ==
    IF Failed(c) THEN [p |-> c.p, val |-> NoExpr]
    ELSE function_body(type, name, parameters, parse_block(c.p))

function_parameters(type, name, r) ==
    IF Failed(r) THEN r
    ELSE function_close(type, name, r.val, consume(r.p, "RPAREN", "Expected ')'"))

function_open(type, name, c) ==
    IF Failed(c) THEN [p |-> c.p, val |-> NoExpr]
    ELSE function_parameters(type, name, parse_parameters(c.p))

function_name(type, name) ==
    IF Failed(name) THEN [p |-> name.p, val |-> NoExpr]
    ELSE function_open(type, name.tok, consume(name.p, "LPAREN", "Expected '('"))

function_type(type) ==
    IF Failed(type) THEN [p |-> type.p, val |-> NoExpr]
    ELSE function_name(type.tok, consume(type.p, "IDENTIFIER", "Expected function name"))

parse_function(P) ==
    function_type(type_token(skip_newlines(P),
                             "Expected 'int', 'void' or 'str' for function return type"))

\* the loop of Parser::parse
RECURSIVE parse_functions(_, _)
parse_next(functions, r) ==
    IF Failed(r) THEN [p |-> r.p, val |-> Program(functions)]
    ELSE parse_functions(r.p, Append(functions, r.val))

parse_functions(P, functions) ==
    IF ~parser_is_at_end(P) THEN parse_next(functions, parse_function(P))
    ELSE [p |-> P, val |-> Program(functions)]

\* Parser::parse: [p, val |-> the Program]; p.thrown is the exception
parse(P) == parse_functions(P, <<>>)

(***************************************************************************)
(* Programs the stages are run on                                          *)
(***************************************************************************)
MaxExprDepth == 2
MaxBlockDepth == 2
MaxFuncs == 2
MaxParams == 7
MaxRepeat == 3
MaxVisits == 2
MaxControl == 3

Lit1 == IntLiteral(1)
LitS == StringLiteral(Str_s)
IdA == Identifier(Str_a)
IdB == Identifier(Str_b)

Leaves == {Lit1, LitS, IdA}

\* expressions of nesting depth at most d, grown at one side at a time
RECURSIVE Exprs(_)
Exprs(d) ==
    IF d = 0 THEN Leaves \cup {IdB}
    ELSE LET sub == Exprs(d - 1) IN
         sub
         \cup {BinaryExpr(l, o, r) : l \in sub, o \in {OP_PLUS, OP_LESS}, r \in Leaves}
         \cup {BinaryExpr(l, o, r) : l \in Leaves, o \in {OP_PLUS, OP_LESS}, r \in sub}
         \cup {UnaryExpr(o, e) : o \in {OP_MINUS, OP_NOT}, e \in sub}

\* every token kind the parser or a hand-built AST can put into a BinaryExpr
AllOps == {OP_PLUS, OP_MINUS, OP_MULTIPLY, OP_DIVIDE, OP_EQUAL, OP_NOT_EQUAL,
           OP_LESS, OP_GREATER, OP_LESS_EQ, OP_GREATER_EQ, OP_ASSIGN, OP_NOT}

OpExprs == {BinaryExpr(l, o, Lit1) : l \in {Lit1, LitS}, o \in AllOps}

\* one statement holding the expression e, one per place an expression can stand
ExprStmts(e) ==
    {VarDeclStmt(KEYWORD_INT, Str_b, e), VarDeclStmt(KEYWORD_STR, Str_b, e),
     AssignStmt(Str_a, e), IfStmt(e, <<>>, <<>>), WhileStmt(e, <<>>), ReturnStmt(e)}

ExprPrograms ==
    {Program(<<Function(Str_f, KEYWORD_INT, <<Parameter(KEYWORD_INT, Str_a)>>, <<st>>)>>) :
        st \in UNION {ExprStmts(e) : e \in Exprs(MaxExprDepth) \cup OpExprs}}

ScopeBase ==
    {VarDeclStmt(KEYWORD_INT, Str_a, NoExpr), VarDeclStmt(KEYWORD_STR, Str_a, NoExpr),
     VarDeclStmt(KEYWORD_INT, Str_b, Lit1), AssignStmt(Str_a, Lit1),
     AssignStmt(Str_a, LitS), AssignStmt(Str_b, IdA), ReturnStmt(IdB)}

\* a block around inner, with a statement list before and one after it
Wraps(inner) ==
    LET int_a == <<VarDeclStmt(KEYWORD_INT, Str_a, NoExpr)>>
        a_is_1 == <<AssignStmt(Str_a, Lit1)>>
        b_is_1 == <<AssignStmt(Str_b, Lit1)>>
    IN {<<IfStmt(Lit1, inner, <<>>)>> \o a_is_1,
        int_a \o <<IfStmt(Lit1, inner, <<>>)>> \o a_is_1,
        int_a \o <<IfStmt(Lit1, <<VarDeclStmt(KEYWORD_INT, Str_b, NoExpr)>>, inner)>>
              \o b_is_1,
        int_a \o <<WhileStmt(Lit1, inner)>> \o a_is_1,
        <<WhileStmt(Lit1, inner)>> \o b_is_1}

\* statement lists with blocks nested at most d deep
RECURSIVE Bodies(_)
Bodies(d) ==
    IF d = 0 THEN {<<>>} \cup {<<st>> : st \in ScopeBase}
    ELSE Bodies(d - 1)
         \cup UNION {Wraps(inner) : inner \in Bodies(d - 1)}
         \cup {<<st, st2>> : st \in {VarDeclStmt(KEYWORD_INT, Str_a, NoExpr)},
                             st2 \in ScopeBase}

ScopePrograms ==
    {Program(<<Function(Str_f, KEYWORD_INT, ps, body)>>) :
        ps \in {<<>>, <<Parameter(KEYWORD_INT, Str_a)>>},
        body \in Bodies(MaxBlockDepth)}

ReturnBodies ==
    {<<ReturnStmt(e)>> : e \in {NoExpr, Lit1, LitS, IdA, BinaryExpr(Lit1, OP_PLUS, Lit1)}}
    \cup {<<IfStmt(Lit1, <<ReturnStmt(IdA)>>, <<ReturnStmt(NoExpr)>>)>>,
          <<WhileStmt(Lit1, <<ReturnStmt(Lit1)>>)>>}

ReturnPrograms ==
    {Program(<<Function(Str_f, rt, ps, body)>>) :
        rt \in TypeTokens,
        ps \in {<<>>} \cup {<<Parameter(t, Str_a)>> : t \in TypeTokens},
        body \in ReturnBodies}

SmallFunctions ==
    {Function(n, rt, <<>>, body) :
        n \in {Str_f, Str_g}, rt \in {KEYWORD_INT, KEYWORD_VOID},
        body \in {<<>>, <<ReturnStmt(IdB)>>, <<WhileStmt(Lit1, <<>>)>>}}

RECURSIVE FunctionLists(_)
FunctionLists(n) ==
    IF n = 0 THEN {<<>>}
    ELSE FunctionLists(n - 1)
         \cup {Append(fs, f) : fs \in {x \in FunctionLists(n - 1) : Len(x) = n - 1},
                               f \in SmallFunctions}

MultiPrograms == {Program(fs) : fs \in FunctionLists(MaxFuncs)}

\* function, variable and parameter names that meet the names the back end mints
Str_p == <<112>>
Str_z == <<122>>
LabelLikeNames == {Str_f, Str_main, Str_entry_0, Str_f_epilogue, Str_start}

NamePrograms ==
    {Program(<<Function(n, KEYWORD_INT, <<>>, <<ReturnStmt(Lit1)>>)>>) :
        n \in LabelLikeNames}
    \cup {Program(<<Function(n, KEYWORD_INT, <<>>, <<ReturnStmt(Lit1)>>),
                    Function(m, KEYWORD_INT, <<>>, <<ReturnStmt(Lit1)>>)>>) :
            n \in {Str_f}, m \in LabelLikeNames \ {Str_f}}

\* int p0, int p1, ... : n parameters
ParamList(n) == [i \in 1..n |-> Parameter(KEYWORD_INT, Str_p \o to_string(i - 1))]

\* v = v + 1 + 1;  repeated n times
Repeat(v, n) ==
    [i \in 1..n |->
        AssignStmt(v, BinaryExpr(BinaryExpr(Identifier(v), OP_PLUS, Lit1), OP_PLUS, Lit1))]

StackBodies(v) ==
    UNION {{<<VarDeclStmt(KEYWORD_INT, v, Lit1)>> \o Repeat(v, n) \o <<ReturnStmt(Identifier(v))>>,
            <<VarDeclStmt(KEYWORD_INT, v, Lit1),
              WhileStmt(BinaryExpr(Identifier(v), OP_LESS, Lit1), Repeat(v, n))>>,
            <<VarDeclStmt(KEYWORD_INT, v, Lit1),
              IfStmt(Identifier(v), Repeat(v, n), <<ReturnStmt(Identifier(v))>>)>>} :
           n \in 0..MaxRepeat}

StackPrograms ==
    {Program(<<Function(Str_f, KEYWORD_INT, ParamList(n), body)>>) :
        n \in 0..MaxParams,
        body \in UNION {StackBodies(v) : v \in {Str_z, Str_b, Str_t0, Str_entry_0, Str_if_then_1}}}

\* statements and statement lists made of exactly n return, if and while
\* statements, the nested ones counted
RECURSIVE ControlLists(_)
ControlStmts(n) ==
    (IF n = 1 THEN {ReturnStmt(Lit1)} ELSE {})
    \cup {WhileStmt(Lit1, body) : body \in ControlLists(n - 1)}
    \cup UNION {{IfStmt(Lit1, t, e) : t \in ControlLists(i), e \in ControlLists(n - 1 - i)} :
                  i \in 0..(n - 1)}

ControlLists(n) ==
    IF n = 0 THEN {<<>>}
    ELSE UNION {{<<st>> \o rest : st \in ControlStmts(m), rest \in ControlLists(n - m)} :
                    m \in 1..n}

ControlPrograms ==
    {Program(<<Function(Str_f, KEYWORD_INT, <<>>, body)>>) :
        body \in UNION {ControlLists(n) : n \in 0..MaxControl}}

Programs ==
    ExprPrograms \cup ScopePrograms \cup ReturnPrograms \cup MultiPrograms
    \cup NamePrograms \cup StackPrograms \cup ControlPrograms

(***************************************************************************)
(* The stages as operations on the state                                   *)
(***************************************************************************)
\* no second run of the IR generator has been made
NotGenerated == [done |-> FALSE, fresh |-> FALSE, thrown |-> "", functions |-> <<>>]
\* Lexer::Lex and Parser::parse have not been called
NotLexed == [done |-> FALSE, thrown |-> "", tokens |-> <<>>]
NotParsed == [done |-> FALSE, thrown |-> ""]
\* compile_file has not been entered: the stages are called on an AST directly
\* a process in which no Lexer has run: the static deque is empty
NewProcess == [pending_dedents |-> <<>>, lexers |-> 0]
NotCompiling == [source |-> <<>>, pc |-> "none", rc |-> -1, opened |-> FALSE]

Init ==
    /\ program \in Programs
    /\ analyzer = SemanticAnalyzer
    /\ sem_log = <<>>
    /\ ir_gen = [done |-> FALSE, thrown |-> "", functions |-> <<>>,
                 object |-> IRGenerator, again |-> NotGenerated]
    /\ asm = [done |-> FALSE, thrown |-> "", out |-> <<>>, frames |-> <<>>]
    /\ lexer = NotLexed
    /\ parser = NotParsed
    /\ cf = NotCompiling
    /\ process = NewProcess

\* analyzer.visit(*program), on the same analyzer object every time
Analyze ==
    /\ Len(sem_log) < MaxVisits
    /\ ~ir_gen.done
    /\ LET A == visit_Program(
                    [scopes_ |-> analyzer.scopes_, functions_ |-> analyzer.functions_,
                     current_function_type_ |-> analyzer.current_function_type_,
                     visits_ |-> analyzer.visits_, sizes_ |-> analyzer.sizes_,
                     thrown |-> ""],
                    program)
       IN /\ analyzer' = [scopes_ |-> A.scopes_, functions_ |-> A.functions_,
                          current_function_type_ |-> A.current_function_type_,
                          visits_ |-> A.visits_, sizes_ |-> A.sizes_]
          /\ sem_log' = Append(sem_log, A.thrown)
    /\ UNCHANGED <<program, ir_gen, asm, lexer, parser, cf, process>>

\* ir_gen.generate(*program) on a fresh IRGenerator, once the analysis before
\* it has returned without an exception
GenerateIR ==
    /\ sem_log # <<>>
    /\ sem_log[Len(sem_log)] = ""
    /\ ~ir_gen.done
    /\ LET r == generate(IRGenerator, program)
       IN ir_gen' = [done |-> TRUE, thrown |-> r.thrown, functions |-> r.functions,
                     object |-> r.g, again |-> NotGenerated]
    /\ UNCHANGED <<program, analyzer, sem_log, asm, lexer, parser, cf, process>>

\* generate(*program) once more, on the generator of the first run or on a new
\* one, after the pipeline has finished
GenerateIRAgain ==
    /\ asm.done
    /\ ~ir_gen.again.done
    /\ \E fresh \in BOOLEAN :
        LET r == generate(IF fresh THEN IRGenerator ELSE ir_gen.object, program)
        IN ir_gen' = [ir_gen EXCEPT !.again = [done |-> TRUE, fresh |-> fresh,
                                               thrown |-> r.thrown,
                                               functions |-> r.functions]]
    /\ UNCHANGED <<program, analyzer, sem_log, asm, lexer, parser, cf, process>>

\* code_gen.generate(*ir_program, "output.asm") on a fresh CodeGenerator: the
\* file may fail to open, and the stream may be bad after the flush
GenerateCode ==
    /\ ir_gen.done
    /\ ir_gen.thrown = ""
    /\ ~asm.done
    /\ \E is_open \in BOOLEAN, good \in BOOLEAN :
        LET C == generate_to_file(ir_gen, is_open, good)
        IN asm' = [done |-> TRUE, thrown |-> C.thrown, out |-> C.out,
                   frames |-> C.frames_]
    /\ UNCHANGED <<program, analyzer, sem_log, ir_gen, lexer, parser, cf, process>>

Next == Analyze \/ GenerateIR \/ GenerateCode \/ GenerateIRAgain

Spec == Init /\ [][Next]_vars

(***************************************************************************)
(* compile_file (main.cpp): the five stages run on a source text           *)
(***************************************************************************)
MaxPieces == 3
MaxExprOps == 3
MaxCondOps == 2

\* " ", "\t", "\n", "//a", "/*a\n*/": text without a token other than NEWLINE
BlankPieces == {<<32>>, <<9>>, <<10>>, <<47, 47, 97>>, <<47, 42, 97, 10, 42, 47>>}

\* and "a", "1", "\"a\n\"", "<=", "@"
SourcePieces == BlankPieces \cup {<<97>>, <<49>>, <<34, 97, 10, 34>>, <<60, 61>>, <<64>>}

\* the texts made of at most n of the pieces
RECURSIVE Texts(_, _)
Texts(pieces, n) ==
    IF n = 0 THEN {<<>>}
    ELSE LET shorter == Texts(pieces, n - 1)
         IN shorter \cup {s \o p : s \in shorter, p \in pieces}

\* a text is blank when every character of it is a space, a tab, a newline or
\* part of a comment: // to the end of the line, /* to the next */
RECURSIVE OnlyBlank(_, _)
OnlyBlank(s, mode) ==
    IF s = <<>> THEN mode # "block"
    ELSE IF mode = "line"
    THEN OnlyBlank(Tail(s), IF Head(s) = 10 THEN "text" ELSE "line")
    ELSE IF mode = "block"
    THEN (IF Len(s) >= 2 /\ s[1] = 42 /\ s[2] = 47
          THEN OnlyBlank(SubSeq(s, 3, Len(s)), "text")
          ELSE OnlyBlank(Tail(s), "block"))
    ELSE IF Head(s) \in {32, 9, 10} THEN OnlyBlank(Tail(s), "text")
    ELSE IF Len(s) >= 2 /\ s[1] = 47 /\ s[2] = 47 THEN OnlyBlank(SubSeq(s, 3, Len(s)), "line")
    ELSE IF Len(s) >= 2 /\ s[1] = 47 /\ s[2] = 42 THEN OnlyBlank(SubSeq(s, 3, Len(s)), "block")
    ELSE FALSE

BlankSources == {s \in Texts(BlankPieces, MaxPieces) : OnlyBlank(s, "text")}
PieceSources == Texts(SourcePieces, MaxPieces)

\* the expressions with exactly n operators over a, -, *, + and <
RECURSIVE SizedExprs(_)
SizedExprs(n) ==
    IF n = 0 THEN {IdA}
    ELSE {UnaryExpr(OP_MINUS, e) : e \in SizedExprs(n - 1)}
         \cup UNION {{BinaryExpr(l, o, r) :
                        l \in SizedExprs(i), r \in SizedExprs(n - 1 - i),
                        o \in {OP_MULTIPLY, OP_PLUS, OP_LESS}} : i \in 0..(n - 1)}

AllBinaryOps ==
    {OP_MULTIPLY, OP_DIVIDE, OP_PLUS, OP_MINUS, OP_EQUAL, OP_NOT_EQUAL,
     OP_LESS, OP_GREATER, OP_LESS_EQ, OP_GREATER_EQ}

\* two binary operators in both groupings, and a unary operator on either side
PairExprs ==
    {BinaryExpr(BinaryExpr(IdA, o1, Lit1), o2, IdA) : o1 \in AllBinaryOps, o2 \in AllBinaryOps}
    \cup {BinaryExpr(IdA, o1, BinaryExpr(Lit1, o2, IdA)) : o1 \in AllBinaryOps, o2 \in AllBinaryOps}
    \cup {BinaryExpr(UnaryExpr(u, IdA), o, Lit1) : u \in {OP_MINUS, OP_NOT}, o \in AllBinaryOps}
    \cup {UnaryExpr(u, BinaryExpr(IdA, o, Lit1)) : u \in {OP_MINUS, OP_NOT}, o \in AllBinaryOps}
    \cup {UnaryExpr(u, UnaryExpr(v, Lit1)) : u \in {OP_MINUS, OP_NOT}, v \in {OP_MINUS, OP_NOT}}

ParserExprs == UNION {SizedExprs(n) : n \in 0..MaxExprOps} \cup PairExprs
CondExprs == UNION {SizedExprs(n) : n \in 0..MaxCondOps}

\* the spelling of an operator
OpText(op) ==
    CASE op = OP_MULTIPLY -> <<42>>
      [] op = OP_DIVIDE -> <<47>>
      [] op = OP_PLUS -> <<43>>
      [] op = OP_MINUS -> <<45>>
      [] op = OP_NOT -> <<33>>
      [] op = OP_EQUAL -> <<61, 61>>
      [] op = OP_NOT_EQUAL -> <<33, 61>>
      [] op = OP_LESS -> <<60>>
      [] op = OP_GREATER -> <<62>>
      [] op = OP_LESS_EQ -> <<60, 61>>
      [] op = OP_GREATER_EQ -> <<62, 61>>

\* the level of the grammar an expression belongs to: comparison 1, term 2,
\* factor 3, primary 4
Level(e) ==
    IF e.k = "BinaryExpr"
    THEN (IF e.op \in {OP_MULTIPLY, OP_DIVIDE} THEN 3
          ELSE IF e.op \in {OP_PLUS, OP_MINUS} THEN 2
          ELSE 1)
    ELSE 4

\* the text of an expression where a level of at least `level` is expected:
\* parentheses are written only where the grammar needs them
RECURSIVE ExprText(_, _)
ExprText(e, level) ==
    IF Level(e) < level THEN <<40>> \o ExprText(e, 1) \o <<41>>
    ELSE IF e.k = "BinaryExpr"
    THEN ExprText(e.left, Level(e)) \o OpText(e.op) \o ExprText(e.right, Level(e) + 1)
    ELSE IF e.k = "UnaryExpr" THEN OpText(e.op) \o ExprText(e.operand, 4)
    ELSE IF e.k = "Identifier" THEN e.name
    ELSE to_string(e.value)

\* "int f(int a){" ... "}"
IntFunctionText(body) ==
    <<105, 110, 116, 32, 102, 40, 105, 110, 116, 32, 97, 41, 123>> \o body \o <<125>>
FunctionOf(body) ==
    Program(<<Function(Str_f, KEYWORD_INT, <<Parameter(KEYWORD_INT, Str_a)>>, body)>>)

\* return e;
ReturnText(e) == IntFunctionText(<<114, 101, 116, 117, 114, 110, 32>> \o ExprText(e, 1) \o <<59>>)

\* `if c {}` and `while c {}`, the condition in one pair of parentheses or in none
CondText(keyword, c, parens) ==
    IntFunctionText((IF keyword = "if" THEN <<105, 102>> ELSE <<119, 104, 105, 108, 101>>)
                 \o (IF parens THEN <<40>> ELSE <<32>>)
                 \o ExprText(c, 1)
                 \o (IF parens THEN <<41>> ELSE <<>>)
                 \o <<123, 125>>)
CondStmt(keyword, c) == IF keyword = "if" THEN IfStmt(c, <<>>, <<>>) ELSE WhileStmt(c, <<>>)

\* a source text with the Program it is the spelling of
ReturnTable == {<<ReturnText(e), FunctionOf(<<ReturnStmt(e)>>)>> : e \in ParserExprs}
CondTable ==
    {<<CondText(k, c, parens), FunctionOf(<<CondStmt(k, c)>>)>> :
        k \in {"if", "while"}, c \in CondExprs, parens \in BOOLEAN}

Sources == PieceSources \cup {t[1] : t \in ReturnTable \cup CondTable}

\* the end of one try block of compile_file: the catch returns 1, otherwise
\* control goes on to the statement after it
stage_end_going_on(frame, thrown, next) == [frame EXCEPT !.pc = next]

stage_end(frame, thrown, next) ==
    IF thrown # "" THEN [frame EXCEPT !.pc = "returned", !.rc = 1]
    ELSE [frame EXCEPT !.pc = next]

CompileInit ==
    /\ \E s \in Sources : cf = [source |-> s, pc |-> "lex", rc |-> -1, opened |-> FALSE]
    /\ process = NewProcess
    /\ lexer = NotLexed
    /\ parser = NotParsed
    /\ program = NoExpr
    /\ analyzer = SemanticAnalyzer
    /\ sem_log = <<>>
    /\ ir_gen = [done |-> FALSE, thrown |-> "", functions |-> <<>>,
                 object |-> IRGenerator, again |-> NotGenerated]
    /\ asm = [done |-> FALSE, thrown |-> "", out |-> <<>>, frames |-> <<>>]

\* minic::Lexer lexer(source); tokens = lexer.Lex();
CompileLex ==
    /\ cf.pc = "lex"
    /\ LET r == Lex(Lexer(cf.source))
       IN /\ lexer' = [done |-> TRUE, thrown |-> r.l.thrown, tokens |-> r.tokens]
          /\ cf' = stage_end(cf, r.l.thrown, "parse")
    /\ UNCHANGED <<program, analyzer, sem_log, ir_gen, asm, parser, process>>

\* minic::Parser parser(tokens); program = parser.parse();
CompileParse ==
    /\ cf.pc = "parse"
    /\ LET r == parse(Parser(lexer.tokens))
       IN /\ parser' = [done |-> TRUE, thrown |-> r.p.thrown]
          /\ program' = IF r.p.thrown = "" THEN r.val ELSE program
          /\ cf' = stage_end(cf, r.p.thrown, "analyze")
    /\ UNCHANGED <<analyzer, sem_log, ir_gen, asm, lexer, process>>

\* minic::SemanticAnalyzer analyzer; analyzer.visit(*program);
CompileAnalyze ==
    /\ cf.pc = "analyze"
    /\ LET A == visit_Program(
                    [scopes_ |-> SemanticAnalyzer.scopes_,
                     functions_ |-> SemanticAnalyzer.functions_,
                     current_function_type_ |-> SemanticAnalyzer.current_function_type_,
                     visits_ |-> SemanticAnalyzer.visits_,
                     sizes_ |-> SemanticAnalyzer.sizes_, thrown |-> ""],
                    program)
       IN /\ analyzer' = [scopes_ |-> A.scopes_, functions_ |-> A.functions_,
                          current_function_type_ |-> A.current_function_type_,
                          visits_ |-> A.visits_, sizes_ |-> A.sizes_]
          /\ sem_log' = Append(sem_log, A.thrown)
          /\ cf' = stage_end(cf, A.thrown, "ir")
    /\ UNCHANGED <<program, ir_gen, asm, lexer, parser, process>>

\* minic::IRGenerator ir_gen; ir_program = ir_gen.generate(*program);
CompileGenerateIR ==
    /\ cf.pc = "ir"
    /\ LET r == generate(IRGenerator, program)
       IN /\ ir_gen' = [done |-> TRUE, thrown |-> r.thrown, functions |-> r.functions,
                        object |-> r.g, again |-> NotGenerated]
          /\ cf' = stage_end(cf, r.thrown, "codegen")
    /\ UNCHANGED <<program, analyzer, sem_log, asm, lexer, parser, process>>

\* minic::CodeGenerator code_gen; code_gen.generate(*ir_program, "output.asm");
CompileGenerateCode ==
    /\ cf.pc = "codegen"
    /\ \E is_open \in BOOLEAN, good \in BOOLEAN :
        LET C == generate_to_file(ir_gen, is_open, good)
        IN /\ asm' = [done |-> TRUE, thrown |-> C.thrown, out |-> C.out,
                      frames |-> C.frames_]
           /\ cf' = stage_end([cf EXCEPT !.opened = is_open], C.thrown, "return 0")
    /\ UNCHANGED <<program, analyzer, sem_log, ir_gen, lexer, parser, process>>

\* return 0;
CompileReturn ==
    /\ cf.pc = "return 0"
    /\ cf' = [cf EXCEPT !.pc = "returned", !.rc = 0]
    /\ UNCHANGED <<program, analyzer, sem_log, ir_gen, asm, lexer, parser, process>>

CompileNext ==
    \/ CompileLex
    \/ CompileParse
    \/ CompileAnalyze
    \/ CompileGenerateIR
    \/ CompileGenerateCode
    \/ CompileReturn

CompileSpec == CompileInit /\ [][CompileNext]_vars

(***************************************************************************)
(* The indentation-tracking lexer run on a source text                     *)
(***************************************************************************)
MaxLines == 4
MaxLexers == 2

\* the lines "a", " a", "  a", "\ta", " \ta" and the empty line, each with its
\* newline, and "a" without one
IndentPieces ==
    {<<97, 10>>, <<32, 97, 10>>, <<32, 32, 97, 10>>, <<9, 97, 10>>, <<32, 9, 97, 10>>,
     <<10>>, <<97>>}

IndentSources == Texts(IndentPieces, MaxLines)

IndentInit ==
    /\ \E s \in IndentSources : cf = [NotCompiling EXCEPT !.source = s]
    /\ lexer = NotLexed
    /\ parser = NotParsed
    /\ program = NoExpr
    /\ analyzer = SemanticAnalyzer
    /\ sem_log = <<>>
    /\ ir_gen = [done |-> FALSE, thrown |-> "", functions |-> <<>>,
                 object |-> IRGenerator, again |-> NotGenerated]
    /\ asm = [done |-> FALSE, thrown |-> "", out |-> <<>>, frames |-> <<>>]
    /\ process = NewProcess

\* the sources of the Lexer objects after the first: one line, or the source
\* of the Lexer before
LaterSources == Texts(IndentPieces, 1) \cup {cf.source}

\* the Lexer sees the deque as the Lexer objects before it left it
lexer_in_process(source) ==
    [Lexer_indent(source) EXCEPT !.pending_dedents = process.pending_dedents]

\* what a run leaves: the outcome of Lex, and the deque for the next Lexer
lex_outcome(r) ==
    [done |-> TRUE, thrown |-> r.l.thrown, tokens |-> r.tokens, returns |-> r.l.returns_]
process_after(r) ==
    [pending_dedents |-> r.l.pending_dedents, lexers |-> process.lexers + 1]

\* minic::Lexer lexer(source); lexer.Lex(); on the first lexer of the process
LexIndentation ==
    /\ process.lexers = 0
    /\ lexer' = lex_outcome(Lex_indent(lexer_in_process(cf.source)))
    /\ process' = process_after(Lex_indent(lexer_in_process(cf.source)))
    /\ UNCHANGED <<program, analyzer, sem_log, ir_gen, asm, parser, cf>>

\* another Lexer object is made in the same process and lexes its source
LexAnother ==
    /\ process.lexers > 0
    /\ process.lexers < MaxLexers
    /\ \E s \in LaterSources :
           /\ cf' = [cf EXCEPT !.source = s]
           /\ lexer' = lex_outcome(Lex_indent(lexer_in_process(s)))
           /\ process' = process_after(Lex_indent(lexer_in_process(s)))
    /\ UNCHANGED <<program, analyzer, sem_log, ir_gen, asm, parser>>

IndentNext ==
    \/ LexIndentation
    \/ LexAnother

IndentSpec == IndentInit /\ [][IndentNext]_vars

(***************************************************************************)
(* The language rules of the specification, stated over the AST alone      *)
(* (lexical scoping by block structure, the typing rules for expressions). *)
(* None of this is taken from the analyzer: the properties below compare   *)
(* the analyzer's verdict with these rules.                                *)
(***************************************************************************)
PermittedOps == {OP_PLUS, OP_MINUS, OP_MULTIPLY, OP_DIVIDE, OP_EQUAL, OP_NOT_EQUAL,
                 OP_LESS, OP_GREATER, OP_LESS_EQ, OP_GREATER_EQ}

\* the type an expression has under the declarations env, or why it has none
RECURSIVE RefType(_, _)
RefType(e, env) ==
    IF e.k = "IntLiteral" THEN KEYWORD_INT
    ELSE IF e.k = "StringLiteral" THEN KEYWORD_STR
    ELSE IF e.k = "Identifier" THEN
        (IF e.name \in DOMAIN env THEN env[e.name] ELSE "undeclared")
    ELSE IF e.k = "UnaryExpr" THEN
        (IF RefType(e.operand, env) = KEYWORD_INT THEN KEYWORD_INT ELSE "ill-typed")
    ELSE IF e.k = "BinaryExpr" THEN
        (IF e.op \in PermittedOps /\ RefType(e.left, env) = KEYWORD_INT
            /\ RefType(e.right, env) = KEYWORD_INT
         THEN KEYWORD_INT ELSE "ill-typed")
    ELSE "none"

\* an expression and everything nested in it
RECURSIVE SubExprs(_)
SubExprs(e) ==
    IF e.k = "UnaryExpr" THEN {e} \cup SubExprs(e.operand)
    ELSE IF e.k = "BinaryExpr" THEN {e} \cup SubExprs(e.left) \cup SubExprs(e.right)
    ELSE IF e.k = "nullptr" THEN {}
    ELSE {e}

Site(kind, depth, name, type, e, env, local, rt, outer) ==
    [kind |-> kind, depth |-> depth, name |-> name, type |-> type, e |-> e,
     env |-> env, local |-> local, rt |-> rt, outer |-> outer]

\* Every place of a statement list where a name or an expression stands, with
\* the declarations visible there (env), the names declared so far in the
\* innermost open block (local), the declarations visible just before the
\* statement (outer) and the block nesting depth.  A declared name is visible
\* from its own initializer on, up to the end of its block.
RECURSIVE Sites(_, _, _, _, _)
Sites(stmts, env, local, depth, rt) ==
    IF stmts = <<>> THEN {}
    ELSE LET s == Head(stmts)
             rest == Tail(stmts)
         IN IF s.k = "VarDeclStmt" THEN
                {Site("decl", depth, s.name, s.type, s.initializer,
                      table_set(env, s.name, s.type), local, rt, env)}
                \cup Sites(rest, table_set(env, s.name, s.type), local \cup {s.name},
                           depth, rt)
            ELSE IF s.k = "AssignStmt" THEN
                {Site("assign", depth, s.name, "", s.value, env, local, rt, env)}
                \cup Sites(rest, env, local, depth, rt)
            ELSE IF s.k = "ReturnStmt" THEN
                {Site("return", depth, <<>>, "", s.value, env, local, rt, env)}
                \cup Sites(rest, env, local, depth, rt)
            ELSE IF s.k = "IfStmt" THEN
                {Site("cond", depth, <<>>, "", s.condition, env, local, rt, env)}
                \cup Sites(s.then_branch, env, {}, depth + 1, rt)
                \cup Sites(s.else_branch, env, {}, depth + 1, rt)
                \cup Sites(rest, env, local, depth, rt)
            ELSE
                {Site("cond", depth, <<>>, "", s.condition, env, local, rt, env)}
                \cup Sites(s.body, env, {}, depth + 1, rt)
                \cup Sites(rest, env, local, depth, rt)

ParamNames(f) == {f.parameters[i].name : i \in 1..Len(f.parameters)}

\* the parameters are declared in the scope of the function body
FunctionSites(f) ==
    Sites(f.body,
          [n \in ParamNames(f) |->
              f.parameters[CHOOSE i \in 1..Len(f.parameters) :
                               f.parameters[i].name = n].type],
          ParamNames(f), 0, f.return_type)

ProgramSites(p) == UNION {FunctionSites(p.functions[i]) : i \in 1..Len(p.functions)}

SiteValid(st) ==
    CASE st.kind = "decl" ->
           /\ st.name \notin st.local
           /\ st.type # KEYWORD_VOID
           /\ st.e # NoExpr => RefType(st.e, st.env) = st.type
      [] st.kind = "assign" ->
           /\ st.name \in DOMAIN st.env
           /\ st.env[st.name] # KEYWORD_VOID
           /\ RefType(st.e, st.env) = st.env[st.name]
      [] st.kind = "return" ->
           IF st.rt = KEYWORD_VOID THEN st.e = NoExpr
           ELSE st.e # NoExpr /\ RefType(st.e, st.env) = st.rt
      [] st.kind = "cond" -> RefType(st.e, st.env) = KEYWORD_INT

DistinctNames(seq) == \A i, j \in 1..Len(seq) : seq[i].name = seq[j].name => i = j

\* the program obeys every rule of the language
RefValid(p) ==
    /\ DistinctNames(p.functions)
    /\ \A i \in 1..Len(p.functions) : DistinctNames(p.functions[i].parameters)
    /\ \A st \in ProgramSites(p) : SiteValid(st)

HasUnary(p) ==
    \E st \in ProgramSites(p) : \E e \in SubExprs(st.e) : e.k = "UnaryExpr"

\* visit(Program) was called on the fresh analyzer and returned / threw
Analyzed == Len(sem_log) >= 1
Accepted == Analyzed /\ sem_log[1] = ""

(***************************************************************************)
(* C1: in the generated IR every JUMP names its target in operand1 and     *)
(* every JUMPIF / JUMPIFNOT names it in operand2, and that target is the   *)
(* label of a basic block of the same function.                            *)
(***************************************************************************)
BlockLabels(func) == {func.blocks[b].label : b \in 1..Len(func.blocks)}

JumpTargetsInFunction(func) ==
    \A b \in 1..Len(func.blocks) :
        \A i \in 1..Len(func.blocks[b].instructions) :
            LET instr == func.blocks[b].instructions[i] IN
            /\ instr.opcode = "JUMP" => instr.operand1 \in BlockLabels(func)
            /\ instr.opcode \in {"JUMPIF", "JUMPIFNOT"} =>
                   instr.operand2 \in BlockLabels(func)

C1_JumpTargetsAreBlockLabels ==
    (ir_gen.done /\ ir_gen.thrown = "") =>
        \A f \in 1..Len(ir_gen.functions) : JumpTargetsInFunction(ir_gen.functions[f])

(***************************************************************************)
(* C2: when the analyzer accepts a program, every identifier expression    *)
(* and every assignment target names a parameter or a variable declared in *)
(* a lexical scope that is still open at that point; a use of any other    *)
(* name makes the analysis fail.                                           *)
(***************************************************************************)
SiteResolves(st) ==
    /\ st.kind = "assign" => st.name \in DOMAIN st.env
    /\ \A e \in SubExprs(st.e) : e.k = "Identifier" => e.name \in DOMAIN st.env

C2_NamesResolveLexically ==
    Accepted => \A st \in ProgramSites(program) : SiteResolves(st)

\* accepted: an assignment inside a nested block to a name of an enclosing block
C2_Witness ==
    /\ Accepted
    /\ \E st \in ProgramSites(program) :
          /\ st.kind = "assign" /\ st.depth >= 1 /\ st.name \notin st.local
          /\ \E e \in SubExprs(st.e) : e.k = "Identifier"

(***************************************************************************)
(* C3: when the analyzer accepts a program, every binary expression in it  *)
(* has one of the ten permitted operators and both operands of type int.   *)
(***************************************************************************)
C3_BinaryExpressionsWellTyped ==
    Accepted =>
        \A st \in ProgramSites(program) :
            \A e \in SubExprs(st.e) :
                e.k = "BinaryExpr" =>
                    /\ e.op \in PermittedOps
                    /\ RefType(e.left, st.env) = KEYWORD_INT
                    /\ RefType(e.right, st.env) = KEYWORD_INT

\* accepted: a binary expression with a binary operand and a variable in it
C3_Witness ==
    /\ Accepted
    /\ \E st \in ProgramSites(program) :
          \E e \in SubExprs(st.e) :
              /\ e.k = "BinaryExpr"
              /\ "BinaryExpr" \in {e.left.k, e.right.k}
              /\ \E x \in SubExprs(e) : x.k = "Identifier"

(***************************************************************************)
(* C4: when the analyzer accepts a program, every return statement of a    *)
(* void function carries no value and every return statement of any other  *)
(* function carries a value of the declared return type.                   *)
(***************************************************************************)
C4_ReturnsMatchSignature ==
    Accepted =>
        \A st \in ProgramSites(program) :
            st.kind = "return" =>
                IF st.rt = KEYWORD_VOID THEN st.e = NoExpr
                ELSE st.e # NoExpr /\ RefType(st.e, st.env) = st.rt

(***************************************************************************)
(* C5: a declaration of a name already declared in the innermost open      *)
(* scope (a parameter name included, for a declaration directly in the     *)
(* function body) makes the analysis fail; a declaration of the same name  *)
(* in a nested block is accepted and shadows the outer one; after the      *)
(* block the name resolves to the outer declaration and its type again.    *)
(***************************************************************************)
Redeclares(st) == st.kind = "decl" /\ st.name \in st.local
Shadows(st) == st.kind = "decl" /\ st.name \in DOMAIN st.outer /\ st.name \notin st.local

C5_DeclarationScoping ==
    /\ (Analyzed /\ \E st \in ProgramSites(program) : Redeclares(st))
          => sem_log[1] # ""
    /\ (Analyzed /\ RefValid(program) /\ ~HasUnary(program)
          /\ \E st \in ProgramSites(program) : Shadows(st))
          => sem_log[1] = ""
    /\ Accepted =>
          \A st \in ProgramSites(program) :
              st.kind \in {"decl", "assign", "cond"} => SiteValid(st)

\* accepted: string a shadows int a in a nested block, and a = 1 follows the block
C5_Witness ==
    /\ Accepted
    /\ \E st, use \in ProgramSites(program) :
          /\ Shadows(st) /\ st.depth >= 1 /\ st.outer[st.name] # st.type
          /\ use.kind = "assign" /\ use.depth = 0 /\ use.name = st.name
          /\ use.env[use.name] = st.outer[st.name]

(***************************************************************************)
(* C6: a unary expression -e or !e is accepted when e has type int and has *)
(* type int itself, so that it can stand wherever an int is required; a    *)
(* unary operator on a str operand makes the analysis fail.                *)
(***************************************************************************)
C6_UnaryOnIntAccepted ==
    /\ (Analyzed /\ HasUnary(program) /\ RefValid(program)) => sem_log[1] = ""
    /\ Accepted =>
          \A st \in ProgramSites(program) :
              \A e \in SubExprs(st.e) :
                  e.k = "UnaryExpr" => RefType(e.operand, st.env) = KEYWORD_INT

(***************************************************************************)
(* C7: analyzing a valid program twice, the second time with the analyzer  *)
(* object of the first, succeeds both times.                               *)
(***************************************************************************)
C7_SecondAnalysisSucceeds ==
    (Len(sem_log) = 2 /\ sem_log[1] = "") => sem_log[2] = ""

(***************************************************************************)
(* C8: a program in which two functions have the same name fails with the  *)
(* redefinition error, and it fails before any function body is analysed.  *)
(***************************************************************************)
C8_DuplicateFunctionRejectedFirst ==
    (Analyzed /\ ~DistinctNames(program.functions)) =>
        /\ sem_log[1] = "Function redefined"
        /\ analyzer.visits_ = 0

\* two functions of one name, the first with a body that has an error of its own
C8_Witness ==
    /\ Analyzed
    /\ ~DistinctNames(program.functions)
    /\ \E st \in FunctionSites(program.functions[1]) : ~SiteValid(st)
    /\ sem_log[1] = "Function redefined"

(***************************************************************************)
(* C9: the assembly text holds exactly one label line f: and exactly one   *)
(* label line f_epilogue: for every function f of an accepted program.     *)
(***************************************************************************)
LabelCount(out, l) == Cardinality({i \in 1..Len(out) : out[i] = LabelLine(l)})

C9_OneLabelLinePerFunction ==
    (Accepted /\ asm.done /\ asm.thrown = "") =>
        \A i \in 1..Len(program.functions) :
            /\ LabelCount(asm.out, program.functions[i].name) = 1
            /\ LabelCount(asm.out, program.functions[i].name \o Str_epilogue_sfx) = 1

(***************************************************************************)
(* C10: for every function the stack allocation gives the i-th parameter   *)
(* (from 1) the offset 8*i and every other temporary or variable name the  *)
(* following offsets in ascending order of the names; no two names share   *)
(* an offset; the frame is the smallest multiple of 16 that is at least    *)
(* 8 times the number of slots; and every operand [rbp - k] of the         *)
(* function's text has 8 <= k <= frame.                                    *)
(***************************************************************************)
InstructionsOf(func) ==
    UNION {{func.blocks[b].instructions[i] : i \in 1..Len(func.blocks[b].instructions)} :
              b \in 1..Len(func.blocks)}

\* the variables the source function declares and the temporaries t<n> of its
\* IR, as far as an instruction reads or writes them
DeclaredNames(f) == ParamNames(f) \cup {st.name : st \in {x \in FunctionSites(f) : x.kind = "decl"}}
TempNames(func) ==
    {i.result : i \in {x \in InstructionsOf(func) :
                          /\ Len(x.result) >= 2 /\ Head(x.result) = Head(Str_t0)
                          /\ all_digits(Tail(x.result))}}
UsedNames(f, func) ==
    {n \in DeclaredNames(f) \cup TempNames(func) :
        \E i \in InstructionsOf(func) : n \in {i.result, i.operand1, i.operand2}}

\* the text of function number i: from its label line to the next function's
FunctionText(i) ==
    SubSeq(asm.out, asm.frames[i].first,
           IF i < Len(asm.frames) THEN asm.frames[i + 1].first - 1 ELSE Len(asm.out))

IsPrefix(p, t) == Len(p) <= Len(t) /\ SubSeq(t, 1, Len(p)) = p

FrameOperandsInRange(text, frame) ==
    \A l \in 1..Len(text) :
        "ops" \in DOMAIN text[l] =>
            \A o \in 1..Len(text[l].ops) :
                ("txt" \in DOMAIN text[l].ops[o] /\ IsPrefix(Str_rbp_open, text[l].ops[o].txt))
                    => \E j \in 1..(frame \div 8) : text[l].ops[o].txt = rbp_operand(8 * j)

StackLayout(f, func, fr, text) ==
    LET off == fr.var_offsets_
        np == Len(func.parameters)
        others == DOMAIN off \ ParamNames(f)
        rank(n) == Cardinality({m \in others : m = n \/ str_less(m, n)})
    IN /\ \A i \in 1..np : off[func.parameters[i].name] = 8 * i
       /\ UsedNames(f, func) \subseteq DOMAIN off
       /\ \A n \in others : off[n] = 8 * (np + rank(n))
       /\ \A n, m \in DOMAIN off : off[n] = off[m] => n = m
       /\ fr.reserved % 16 = 0
       /\ fr.reserved >= 8 * Cardinality(DOMAIN off)
       /\ fr.reserved < 8 * Cardinality(DOMAIN off) + 16
       /\ FrameOperandsInRange(text, fr.reserved)

C10_StackLayout ==
    (Accepted /\ asm.done /\ asm.thrown = "") =>
        \A i \in 1..Len(asm.frames) :
            StackLayout(program.functions[i], ir_gen.functions[i], asm.frames[i],
                        FunctionText(i))

(***************************************************************************)
(* C11: in the text of every function, a basic block that is followed by   *)
(* another block ends with an unconditional jmp to a block label or to the *)
(* function's epilogue: the line before the next block's label is a jmp.   *)
(***************************************************************************)
\* the lines of a function's text that open a block other than its first
LaterBlockLines(text, func) ==
    {l \in 2..Len(text) :
        \E b \in 2..Len(func.blocks) : text[l] = LabelLine(func.blocks[b].label)}

\* the block whose instructions end right before line l
BlockBefore(text, func, l) ==
    func.blocks[(CHOOSE b \in 2..Len(func.blocks) :
                     text[l] = LabelLine(func.blocks[b].label)) - 1]

JumpsTo(line, mnemonics, targets) ==
    /\ "mn" \in DOMAIN line
    /\ line.mn \in mnemonics
    /\ \E t \in targets : line.ops = <<Txt(t)>>

ExitTargets(func) == BlockLabels(func) \cup {func.name \o Str_epilogue_sfx}

AssemblyEmitted == Accepted /\ asm.done /\ asm.thrown = ""

C11_NoImplicitFallThrough ==
    AssemblyEmitted =>
        \A i \in 1..Len(asm.frames) :
            \A l \in LaterBlockLines(FunctionText(i), ir_gen.functions[i]) :
                JumpsTo(FunctionText(i)[l - 1], {"jmp"}, ExitTargets(ir_gen.functions[i]))

\* C11 as amended: the same, except for a block whose last instruction is a
\* conditional branch; that block ends with je / jne to a block label and the
\* next block is entered when the branch is not taken.
EndsWithConditional(block) ==
    /\ block.instructions # <<>>
    /\ block.instructions[Len(block.instructions)].opcode \in {"JUMPIF", "JUMPIFNOT"}

C11_ExplicitUnlessConditionalBranch ==
    AssemblyEmitted =>
        \A i \in 1..Len(asm.frames) :
            \A l \in LaterBlockLines(FunctionText(i), ir_gen.functions[i]) :
                IF EndsWithConditional(BlockBefore(FunctionText(i), ir_gen.functions[i], l))
                THEN JumpsTo(FunctionText(i)[l - 1], {"je", "jne"},
                             BlockLabels(ir_gen.functions[i]))
                ELSE JumpsTo(FunctionText(i)[l - 1], {"jmp"},
                             ExitTargets(ir_gen.functions[i]))

\* a function with an if or a while has been emitted: blocks closed by JUMP
\* and a block closed by JUMPIFNOT, each followed by another block
C11_Witness ==
    /\ AssemblyEmitted
    /\ \E i \in 1..Len(asm.frames) :
        /\ \E l \in LaterBlockLines(FunctionText(i), ir_gen.functions[i]) :
               EndsWithConditional(BlockBefore(FunctionText(i), ir_gen.functions[i], l))
        /\ \E l \in LaterBlockLines(FunctionText(i), ir_gen.functions[i]) :
               ~EndsWithConditional(BlockBefore(FunctionText(i), ir_gen.functions[i], l))

(***************************************************************************)
(* C13: a second run of the IR generator over the same AST, on the same    *)
(* generator object or on a new one, yields the same functions, the same   *)
(* block labels in the same order and the same instructions; and in each   *)
(* function the label indices and the temporary indices start again at 0:  *)
(* the entry block is entry_0, the labels of its n blocks carry the        *)
(* indices 0..n-1 and its m temporaries are t0..t(m-1).                    *)
(***************************************************************************)
LabelPrefixes ==
    {Str_entry, Str_if_then, Str_if_else, Str_if_end,
     Str_while_cond, Str_while_body, Str_while_end}

\* the indices k < n for which l is <prefix>_<k>
LabelIndices(l, n) ==
    {k \in 0..(n - 1) : \E p \in LabelPrefixes : l = p \o Str_us \o to_string(k)}

IndicesRestart(func) ==
    LET n == Len(func.blocks)
        temps == TempNames(func)
    IN /\ func.blocks[1].label = Str_entry_0
       /\ \A b \in 1..n : LabelIndices(func.blocks[b].label, n) # {}
       /\ \A k \in 0..(n - 1) : \E b \in 1..n : k \in LabelIndices(func.blocks[b].label, n)
       /\ temps = {Str_t \o to_string(k) : k \in 0..(Cardinality(temps) - 1)}

SameIR(first, second) ==
    /\ Len(second) = Len(first)
    /\ \A i \in 1..Len(first) :
        /\ second[i].name = first[i].name
        /\ second[i].return_type = first[i].return_type
        /\ second[i].parameters = first[i].parameters
        /\ Len(second[i].blocks) = Len(first[i].blocks)
        /\ \A b \in 1..Len(first[i].blocks) :
            /\ second[i].blocks[b].label = first[i].blocks[b].label
            /\ second[i].blocks[b].instructions = first[i].blocks[b].instructions

C13_GenerationRepeatable ==
    /\ (ir_gen.done /\ ir_gen.thrown = "") =>
           \A i \in 1..Len(ir_gen.functions) : IndicesRestart(ir_gen.functions[i])
    /\ ir_gen.again.done =>
           /\ ir_gen.again.thrown = ir_gen.thrown
           /\ SameIR(ir_gen.functions, ir_gen.again.functions)
           /\ \A i \in 1..Len(ir_gen.again.functions) :
                  IndicesRestart(ir_gen.again.functions[i])

\* the second run was made on the generator that had already lowered a program
\* of two functions, the first of which used labels and temporaries
C13_Witness ==
    /\ ir_gen.again.done
    /\ ~ir_gen.again.fresh
    /\ Len(ir_gen.again.functions) >= 2
    /\ Len(ir_gen.functions[1].blocks) >= 4
    /\ TempNames(ir_gen.functions[1]) # {}
    /\ TempNames(ir_gen.functions[2]) # {}
    /\ ir_gen.object.label_counter_ > 0

(***************************************************************************)
(* The stages of compile_file, in the order of the specification           *)
(***************************************************************************)
\* stage k has been run / has ended in an exception
StageRan == <<lexer.done, parser.done, sem_log # <<>>, ir_gen.done, asm.done>>
StageFailed ==
    <<lexer.thrown # "", parser.thrown # "",
      sem_log # <<>> /\ sem_log[Len(sem_log)] # "", ir_gen.thrown # "", asm.thrown # "">>
StageSucceeded(k) == StageRan[k] /\ ~StageFailed[k]

\* C12: compile_file runs lex, parse, semantic analysis, IR generation and code
\* generation in this order; a stage runs only after every stage before it has
\* succeeded, and a failed stage makes it return 1 at once; output.asm is opened
\* only after the first four stages have succeeded; it returns 0 exactly when
\* all five stages have succeeded.
C12_StagesInOrder ==
    /\ \A k \in 2..5 : StageRan[k] => StageSucceeded(k - 1)
    /\ \A k \in 1..5 : StageFailed[k] => cf.pc = "returned" /\ cf.rc = 1
    /\ cf.opened => \A k \in 1..4 : StageSucceeded(k)
    /\ cf.rc = 1 => \E k \in 1..5 : StageFailed[k]
    /\ cf.rc = 0 <=> (cf.pc = "returned" /\ \A k \in 1..5 : StageSucceeded(k))
    /\ cf.pc = "returned" <=> cf.rc \in {0, 1}

\* compile_file has returned 1 from the semantic analysis of a source that lexed
\* and parsed, and nothing after the analysis has run
C12_Witness ==
    /\ cf.pc = "returned"
    /\ cf.rc = 1
    /\ StageSucceeded(1) /\ StageSucceeded(2) /\ StageFailed[3]
    /\ ~StageRan[4] /\ ~StageRan[5] /\ ~cf.opened

(***************************************************************************)
(* The grammar of expressions and conditions                               *)
(***************************************************************************)
\* the tree the grammar gives the text of the source compiled, for the sources
\* that are the spelling of a tree
SpelledProgram(table) == {t[2] : t \in {u \in table : u[1] = cf.source}}

\* C14: the parser builds the tree in which * and / bind tighter than + and -,
\* these tighter than the comparisons, operators of one level group to the
\* left, a unary - or ! takes the primary after it and an expression in
\* parentheses is one operand: the text of a tree, written with parentheses
\* only where these rules need them, parses to that tree.
C14_PrecedenceAndGrouping ==
    parser.done =>
        \A tree \in SpelledProgram(ReturnTable) : parser.thrown = "" /\ program = tree

\* (a < a) * -a has been parsed: a comparison in parentheses as the left
\* operand of *, the unary minus on the primary after it
C14_Witness ==
    /\ parser.done
    /\ cf.source = ReturnText(BinaryExpr(BinaryExpr(IdA, OP_LESS, IdA), OP_MULTIPLY,
                                         UnaryExpr(OP_MINUS, IdA)))
    /\ program \in SpelledProgram(ReturnTable)

\* C15: an if or while statement whose condition is a valid expression parses
\* with the condition in one pair of parentheses and with the condition bare,
\* to the same condition tree in both spellings, also when the condition
\* itself begins with an expression in parentheses, as (a + a) * a does.
C15_ConditionParentheses ==
    parser.done =>
        \A tree \in SpelledProgram(CondTable) : parser.thrown = "" /\ program = tree

\* C16: a source with no function in it (the empty text, or spaces, tabs,
\* newlines and comments only) lexes and parses without an error, and the
\* parser returns a Program with an empty function list.
C16_NoFunctionEmptyProgram ==
    cf.source \in BlankSources =>
        /\ lexer.done => lexer.thrown = ""
        /\ parser.done => parser.thrown = "" /\ program = Program(<<>>)

(***************************************************************************)
(* Positions in the source text                                            *)
(***************************************************************************)
\* the 1-based line and column of the character at 0-based offset o: a newline
\* starts a new line at column 1, every other character is one column wide
LineOf(s, o) == 1 + Cardinality({i \in 1..o : s[i] = 10})
ColumnOf(s, o) ==
    LET newlines == {i \in 1..o : s[i] = 10}
    IN IF newlines = {} THEN o + 1
       ELSE o + 1 - CHOOSE i \in newlines : \A j \in newlines : j <= i

\* the characters the lexeme of a token can begin with
FirstChars(t) ==
    CASE t.type = "IDENTIFIER" -> {t.value.str[1]}
      [] t.type = "LITERAL_INT" -> 48..57
      [] t.type = "LITERAL_STRING" -> {34}
      [] t.type = "NEWLINE" -> {10}
      [] t.type \in {"KEYWORD_INT", "KEYWORD_IF"} -> {105}
      [] t.type = "KEYWORD_VOID" -> {118}
      [] t.type = "KEYWORD_STR" -> {115}
      [] t.type = "KEYWORD_ELSE" -> {101}
      [] t.type = "KEYWORD_WHILE" -> {119}
      [] t.type = "KEYWORD_RETURN" -> {114}
      [] t.type = "LPAREN" -> {40}
      [] t.type = "RPAREN" -> {41}
      [] t.type = "LBRACE" -> {123}
      [] t.type = "RBRACE" -> {125}
      [] t.type = "SEMICOLON" -> {59}
      [] t.type = "COMMA" -> {44}
      [] t.type = OP_ASSIGN -> {61}
      [] OTHER -> {OpText(t.type)[1]}

\* the offset at which the run of letters and digits that ends before offset o
\* begins
RECURSIVE RunStart(_, _)
RunStart(s, o) == IF o > 0 /\ isalnum(s[o]) THEN RunStart(s, o - 1) ELSE o

\* the token's lexeme begins at the offset its position was taken at: the
\* character there can begin such a lexeme, and a word or number begins
\* where its run of letters and digits begins, or where the digits that
\* begin the run end
StartsLexeme(t, s) ==
    IF t.type = "END_OF_FILE" THEN t.offset = Len(s)
    ELSE /\ t.offset < Len(s)
         /\ s[t.offset + 1] \in FirstChars(t)
         /\ isalnum(s[t.offset + 1]) =>
                \/ RunStart(s, t.offset) = t.offset
                \/ /\ ~isdigit(s[t.offset + 1])
                   /\ \A i \in (RunStart(s, t.offset) + 1)..t.offset : isdigit(s[i])

\* C17: every token of a source that lexes (NEWLINE tokens, string literals
\* and the final END_OF_FILE included) carries the 1-based line and column of
\* the first character of its lexeme, also after comments and strings that
\* run over several lines.
C17_TokenPositions ==
    (lexer.done /\ lexer.thrown = "") =>
        \A i \in 1..Len(lexer.tokens) :
            /\ StartsLexeme(lexer.tokens[i], cf.source)
            /\ i > 1 => lexer.tokens[i - 1].offset < lexer.tokens[i].offset
            /\ lexer.tokens[i].line = LineOf(cf.source, lexer.tokens[i].offset)
            /\ lexer.tokens[i].column = ColumnOf(cf.source, lexer.tokens[i].offset)

\* a string literal that runs over two lines has been lexed, it does not begin
\* in column 1, and a token follows it on its second line
C17_Witness ==
    /\ lexer.done /\ lexer.thrown = ""
    /\ \E i \in 1..Len(lexer.tokens) :
        /\ lexer.tokens[i].type = "LITERAL_STRING"
        /\ lexer.tokens[i].column > 1
        /\ 10 \in {lexer.tokens[i].value.str[j] : j \in 1..Len(lexer.tokens[i].value.str)}
        /\ i + 1 < Len(lexer.tokens)
        /\ lexer.tokens[i + 1].line = lexer.tokens[i].line + 1
        /\ lexer.tokens[i + 1].column > 1

\* C18: for a source that lexes without an error, Lex returns a token sequence
\* whose last token is END_OF_FILE and which holds no other END_OF_FILE.
C18_OneEndOfFile ==
    (lexer.done /\ lexer.thrown = "") =>
        /\ lexer.tokens # <<>>
        /\ lexer.tokens[Len(lexer.tokens)].type = "END_OF_FILE"
        /\ \A i \in 1..(Len(lexer.tokens) - 1) : lexer.tokens[i].type # "END_OF_FILE"

\* a source that ends in a space or in a comment after its last token has been
\* lexed: next_token meets the end of the text inside the loop of Lex
C18_Witness ==
    /\ lexer.done /\ lexer.thrown = ""
    /\ Len(lexer.tokens) >= 2
    /\ lexer.tokens[Len(lexer.tokens) - 1].type = "IDENTIFIER"
    /\ lexer.tokens[Len(lexer.tokens) - 1].offset + 1 < lexer.tokens[Len(lexer.tokens)].offset

(***************************************************************************)
(* Indentation, read from the lines of the source text                     *)
(***************************************************************************)
\* the lines of a text, without their newlines
RECURSIVE Lines(_, _)
Lines(s, line) ==
    IF s = <<>> THEN <<line>>
    ELSE IF Head(s) = 10 THEN <<line>> \o Lines(Tail(s), <<>>)
    ELSE Lines(Tail(s), Append(line, Head(s)))

\* the spaces and tabs a line begins with
RECURSIVE Leading(_)
Leading(line) ==
    IF line # <<>> /\ Head(line) \in {32, 9} THEN <<Head(line)>> \o Leading(Tail(line))
    ELSE <<>>

IsBlankLine(line) == Leading(line) = line
IsMixed(line) == {32, 9} \subseteq {Leading(line)[i] : i \in 1..Len(Leading(line))}

\* the indentation of a line: a space counts 1, a tab 4
RECURSIVE Width(_)
Width(blanks) ==
    IF blanks = <<>> THEN 0
    ELSE (IF Head(blanks) = 32 THEN 1 ELSE 4) + Width(Tail(blanks))
Indentation(line) == Width(Leading(line))

\* the stack with every entry above w popped
RECURSIVE PoppedTo(_, _)
PoppedTo(stack, w) ==
    IF stack # <<>> /\ stack[Len(stack)] > w THEN PoppedTo(SubSeq(stack, 1, Len(stack) - 1), w)
    ELSE stack

\* the indentation stack after the first n lines, by the rule of the
\* specification: a larger indentation is pushed, a smaller one pops down to
\* its own entry; <<>> once a smaller indentation has met no entry
RECURSIVE StackAfter(_, _)
StackAfter(lines, n) ==
    IF n = 0 THEN <<0>>
    ELSE LET before == StackAfter(lines, n - 1)
             w == Indentation(lines[n])
         IN IF before = <<>> \/ IsBlankLine(lines[n]) THEN before
            ELSE IF w > before[Len(before)] THEN Append(before, w)
            ELSE IF w \in {before[i] : i \in 1..Len(before)} THEN PoppedTo(before, w)
            ELSE <<>>

\* line n has a smaller indentation than the top of the stack before it
IsDedentLine(lines, n) ==
    /\ ~IsBlankLine(lines[n])
    /\ StackAfter(lines, n - 1) # <<>>
    /\ Indentation(lines[n]) < StackAfter(lines, n - 1)[Len(StackAfter(lines, n - 1))]

\* the number k of levels line n goes down
LevelsDown(lines, n) == Len(StackAfter(lines, n - 1)) - Len(StackAfter(lines, n))

IsOrdinary(t) == t.type \notin {"NEWLINE", "INDENT", "DEDENT", "END_OF_FILE"}

\* the DEDENT tokens between the last ordinary token of the lines before
\* line n and the first ordinary token of line n
DedentsBefore(tokens, n) ==
    LET first == CHOOSE i \in 1..Len(tokens) :
                     /\ IsOrdinary(tokens[i]) /\ tokens[i].line = n
                     /\ \A j \in 1..(i - 1) : ~(IsOrdinary(tokens[j]) /\ tokens[j].line = n)
    IN Cardinality({i \in 1..(first - 1) :
                        /\ tokens[i].type = "DEDENT"
                        /\ \A j \in i..(first - 1) : ~IsOrdinary(tokens[j])})

\* C19: for a source whose first line is not indented and whose lines do not
\* mix spaces and tabs: a line that goes k levels down the indentation stack
\* gets exactly k DEDENT tokens, all of them before its first ordinary token,
\* and a line whose smaller indentation is no entry of the stack makes
\* lexing fail.
C19_DedentsBeforeTheLine ==
    LET lines == Lines(cf.source, <<>>) IN
    (/\ lexer.done
     /\ Indentation(lines[1]) = 0
     /\ \A n \in 1..Len(lines) : ~IsMixed(lines[n])) =>
        /\ (\E n \in 1..Len(lines) : IsDedentLine(lines, n) /\ StackAfter(lines, n) = <<>>)
                => lexer.thrown # ""
        /\ lexer.thrown = "" =>
                \A n \in 1..Len(lines) :
                    IsDedentLine(lines, n) =>
                        DedentsBefore(lexer.tokens, n) = LevelsDown(lines, n)

\* C20: lexing fails whenever the leading whitespace of some non-blank line
\* holds both a space and a tab, and the error about mixed tabs and spaces is
\* raised only for a source that has such leading whitespace.
C20_MixedIndentationFails ==
    LET lines == Lines(cf.source, <<>>) IN
    lexer.done =>
        /\ (\E n \in 1..Len(lines) : ~IsBlankLine(lines[n]) /\ IsMixed(lines[n]))
                => lexer.thrown # ""
        /\ lexer.thrown = "Mixed tabs and spaces"
                => \E n \in 1..Len(lines) : IsMixed(lines[n])

(***************************************************************************)
(* C21: for every while statement the jmp written for the JUMP before the  *)
(* loop and the jmp written for the JUMP that ends the loop body both      *)
(* target the while_cond label of that statement: in the text of every     *)
(* function, a block that ends with a JUMP the lowering made for a         *)
(* while_cond label ends with the line jmp <that label>.                   *)
(***************************************************************************)
\* the last instruction of a block is a JUMP made by emit(JUMP, cond_label)
EndsWithLoopJump(block) ==
    /\ block.instructions # <<>>
    /\ block.instructions[Len(block.instructions)].opcode = "JUMP"
    /\ IsPrefix(Str_while_cond, block.instructions[Len(block.instructions)].result)

LoopJumpsReachOwnCond(text, func) ==
    \A l \in LaterBlockLines(text, func) :
        EndsWithLoopJump(BlockBefore(text, func, l)) =>
            text[l - 1] = Ins("jmp", <<Txt(BlockBefore(text, func, l).instructions[
                              Len(BlockBefore(text, func, l).instructions)].result)>>)

C21_LoopJumpsReachOwnCond ==
    AssemblyEmitted =>
        \A i \in 1..Len(asm.frames) :
            LoopJumpsReachOwnCond(FunctionText(i), ir_gen.functions[i])

(***************************************************************************)
(* C22: in the assembly written for a program, every label (function       *)
(* label, block label, epilogue label) is defined at most once in the      *)
(* whole output.                                                           *)
(***************************************************************************)
C22_LabelsDefinedOnce ==
    AssemblyEmitted =>
        \A l \in 1..Len(asm.out) :
            "label" \in DOMAIN asm.out[l] => LabelCount(asm.out, asm.out[l].label) = 1

(***************************************************************************)
(* C23: for every accepted program, no temporary name that new_temp mints  *)
(* in a function equals the name of a parameter or of a declared variable  *)
(* of that function.                                                       *)
(***************************************************************************)
\* the names new_temp returned while function f was lowered: t0 .. t<n-1>
\* for the n the function leaves in temp_counter_
MintedTemps(f) ==
    {Str_t \o to_string(k) :
        k \in 0..(ir_visit_Function(IRGenerator, f).g.temp_counter_ - 1)}

IRGenerated == Accepted /\ ir_gen.done /\ ir_gen.thrown = ""

C23_TemporariesAreFresh ==
    IRGenerated =>
        \A i \in 1..Len(program.functions) :
            MintedTemps(program.functions[i]) \cap DeclaredNames(program.functions[i]) = {}

(***************************************************************************)
(* C24: when a block inside a function declares a variable with the name   *)
(* of a variable or parameter of an enclosing scope, the two declarations  *)
(* get distinct storage: the IR operand the lowering binds to the inner    *)
(* declaration has another stack slot than the operand of the outer one,   *)
(* so an assignment to the inner variable leaves the outer one alone.      *)
(***************************************************************************)
\* the declarations of a block that hide a name visible around the block
ShadowingSites(f) ==
    {st \in FunctionSites(f) :
        /\ st.kind = "decl" /\ st.depth > 0
        /\ st.name \in DOMAIN st.outer /\ st.name \notin st.local}

\* the generator when the outer declaration of st.name has been lowered, and
\* the operands var_map_ holds for the name before and after the inner one
OuterBound(st) == map_parameters(IRGenerator, [parameters |-> <<[name |-> st.name]>>])
OuterOperand(st) == OuterBound(st).var_map_[st.name]
InnerOperand(st) ==
    ir_visit_VarDeclStmt(OuterBound(st), VarDeclStmt(st.type, st.name, NoExpr)).var_map_[st.name]

C24_ShadowedVariableKeepsStorage ==
    AssemblyEmitted =>
        \A i \in 1..Len(asm.frames) :
            \A st \in ShadowingSites(program.functions[i]) :
                {InnerOperand(st), OuterOperand(st)} \subseteq DOMAIN asm.frames[i].var_offsets_
                    => asm.frames[i].var_offsets_[InnerOperand(st)]
                           # asm.frames[i].var_offsets_[OuterOperand(st)]

(***************************************************************************)
(* C25: in every basic block of the generated IR a JUMP, JUMPIF, JUMPIFNOT *)
(* or RETURN is the last instruction of its block: no instruction follows  *)
(* a branch or a return inside the same block.                             *)
(***************************************************************************)
BranchesEndBlock(block) ==
    \A k \in 1..(Len(block.instructions) - 1) :
        block.instructions[k].opcode \notin ControlOpcodes

C25_BranchesEndTheirBlock ==
    IRGenerated =>
        \A i \in 1..Len(ir_gen.functions) :
            \A b \in 1..Len(ir_gen.functions[i].blocks) :
                BranchesEndBlock(ir_gen.functions[i].blocks[b])

(***************************************************************************)
(* C26: during semantic analysis the scope stack is never empty and        *)
(* pop_scope is never called on an empty stack; while a statement at block *)
(* nesting depth d of a function is analyzed the stack holds d + 2 scopes; *)
(* and when visit(Program) has returned normally the stack holds the one   *)
(* global scope, with no variable in it.                                   *)
(***************************************************************************)
\* the calls a complete analysis of a statement list at depth d makes, with
\* the stack sizes the claim gives them: d + 2 at a statement, and one more
\* at the pop_scope that closes a block of the statement
RECURSIVE ScopeCalls(_, _)
BlockCalls(stmts, d) == ScopeCalls(stmts, d + 1) \o <<[at |-> "pop", size |-> d + 3]>>

ScopeCalls(stmts, d) ==
    IF stmts = <<>> THEN <<>>
    ELSE <<[at |-> "stmt", size |-> d + 2]>>
         \o (IF Head(stmts).k = "IfStmt"
             THEN BlockCalls(Head(stmts).then_branch, d)
                      \o BlockCalls(Head(stmts).else_branch, d)
             ELSE IF Head(stmts).k = "WhileStmt" THEN BlockCalls(Head(stmts).body, d)
             ELSE <<>>)
         \o ScopeCalls(Tail(stmts), d)

\* function by function: the body at depth 0, then the pop of the function scope
RECURSIVE ProgramScopeCalls(_)
ProgramScopeCalls(functions) ==
    IF functions = <<>> THEN <<>>
    ELSE ScopeCalls(Head(functions).body, 0) \o <<[at |-> "pop", size |-> 2]>>
         \o ProgramScopeCalls(Tail(functions))

C26_ScopeStackDiscipline ==
    /\ Len(analyzer.scopes_) >= 1
    /\ \A k \in 1..Len(analyzer.sizes_) : analyzer.sizes_[k].size >= 1
    /\ \A k \in 1..Len(sem_log) : sem_log[k] # "Scope stack underflow"
    /\ IsPrefix(analyzer.sizes_, ProgramScopeCalls(program.functions))
    /\ (sem_log # <<>> /\ sem_log[Len(sem_log)] = "") =>
           /\ analyzer.scopes_ = <<SymbolTable>>
           /\ analyzer.sizes_ = ProgramScopeCalls(program.functions)

\* an accepted function with a statement two blocks deep has been analyzed
C26_Witness ==
    /\ Accepted
    /\ \E k \in 1..Len(analyzer.sizes_) :
           analyzer.sizes_[k] = [at |-> "stmt", size |-> 4]
    /\ \E c \in DOMAIN program.functions[1].body :
           program.functions[1].body[c].k = "WhileStmt"
    /\ analyzer.scopes_ = <<SymbolTable>>

(***************************************************************************)
(* C27: the tokens a Lexer object produces depend on its own source only:  *)
(* whatever was lexed before in the process, the outcome of Lex is the     *)
(* outcome the same source has on the first Lexer of a new process.        *)
(***************************************************************************)
C27_TokensDependOnSourceOnly ==
    lexer.done =>
        /\ lexer.thrown = Lex_indent(Lexer_indent(cf.source)).l.thrown
        /\ lexer.tokens = Lex_indent(Lexer_indent(cf.source)).tokens

(***************************************************************************)
(* C28: the IR of every function has 1 + 3*k basic blocks for the k if and *)
(* while statements of the function, nested ones counted: the entry block  *)
(* first; for each if a then, an else and an end block, the else block     *)
(* being made also for an if without else, where it holds the JUMP to the  *)
(* end block and nothing else; for each while a cond, a body and an end    *)
(* block.                                                                  *)
(***************************************************************************)
\* the if and while statements of a statement list, at any depth
RECURSIVE ControlCount(_)
ControlCount(stmts) ==
    IF stmts = <<>> THEN 0
    ELSE (IF Head(stmts).k = "IfStmt"
          THEN 1 + ControlCount(Head(stmts).then_branch)
                 + ControlCount(Head(stmts).else_branch)
          ELSE IF Head(stmts).k = "WhileStmt" THEN 1 + ControlCount(Head(stmts).body)
          ELSE 0)
         + ControlCount(Tail(stmts))

\* the blocks the statements add, in the order they are opened: the label
\* prefix of each, and whether it is the else block of an if without else
BlockKind(prefix, bare) == [prefix |-> prefix, bare |-> bare]

RECURSIVE BlockKinds(_)
BlockKinds(stmts) ==
    IF stmts = <<>> THEN <<>>
    ELSE (IF Head(stmts).k = "IfStmt"
          THEN <<BlockKind(Str_if_then, FALSE)>> \o BlockKinds(Head(stmts).then_branch)
               \o <<BlockKind(Str_if_else, Head(stmts).else_branch = <<>>)>>
               \o BlockKinds(Head(stmts).else_branch)
               \o <<BlockKind(Str_if_end, FALSE)>>
          ELSE IF Head(stmts).k = "WhileStmt"
          THEN <<BlockKind(Str_while_cond, FALSE), BlockKind(Str_while_body, FALSE)>>
               \o BlockKinds(Head(stmts).body)
               \o <<BlockKind(Str_while_end, FALSE)>>
          ELSE <<>>)
         \o BlockKinds(Tail(stmts))

BlocksAsCounted(f, func) ==
    LET kinds == <<BlockKind(Str_entry, FALSE)>> \o BlockKinds(f.body) IN
    /\ Len(func.blocks) = 1 + 3 * ControlCount(f.body)
    /\ Len(kinds) = Len(func.blocks)
    /\ \A b \in 1..Len(func.blocks) :
           /\ IsPrefix(kinds[b].prefix \o Str_us, func.blocks[b].label)
           /\ kinds[b].bare =>
                  /\ IsPrefix(Str_if_end, func.blocks[b + 1].label)
                  /\ func.blocks[b].instructions =
                         <<IRInstruction("JUMP", Str_empty, func.blocks[b + 1].label,
                                         Str_empty)>>

C28_ThreeBlocksPerControlStatement ==
    IRGenerated =>
        \A i \in 1..Len(ir_gen.functions) :
            BlocksAsCounted(program.functions[i], ir_gen.functions[i])

\* the IR of a function with two control statements, one inside the other and
\* an if without else among them, has been generated
C28_Witness ==
    /\ IRGenerated
    /\ Len(ir_gen.functions) = 1
    /\ Len(ir_gen.functions[1].blocks) = 7
    /\ \E c \in DOMAIN program.functions[1].body :
           /\ program.functions[1].body[c].k = "WhileStmt"
           /\ program.functions[1].body[c].body # <<>>
           /\ program.functions[1].body[c].body[1].k = "IfStmt"
           /\ program.functions[1].body[c].body[1].else_branch = <<>>

(***************************************************************************)
(* C29: within one function the n-th temporary allocated is named t(n-1),  *)
(* each temporary is the result of exactly one instruction, and lowering   *)
(* an expression allocates one temporary for each literal, unary and       *)
(* binary node and none for an identifier: the instructions of a function  *)
(* whose result is a temporary have, in order, the results t0, t1, ...,    *)
(* one for each such node of the function.                                 *)
(***************************************************************************)
\* the literal, unary and binary nodes of an expression and of the
\* expressions of a statement list
RECURSIVE ValueNodes(_)
ValueNodes(e) ==
    IF e = NoExpr \/ e.k = "Identifier" THEN 0
    ELSE IF e.k = "UnaryExpr" THEN 1 + ValueNodes(e.operand)
    ELSE IF e.k = "BinaryExpr" THEN 1 + ValueNodes(e.left) + ValueNodes(e.right)
    ELSE 1

RECURSIVE ValueNodesOf(_)
ValueNodesOf(stmts) ==
    IF stmts = <<>> THEN 0
    ELSE (IF Head(stmts).k = "VarDeclStmt" THEN ValueNodes(Head(stmts).initializer)
          ELSE IF Head(stmts).k \in {"AssignStmt", "ReturnStmt"}
          THEN ValueNodes(Head(stmts).value)
          ELSE IF Head(stmts).k = "IfStmt"
          THEN ValueNodes(Head(stmts).condition) + ValueNodesOf(Head(stmts).then_branch)
               + ValueNodesOf(Head(stmts).else_branch)
          ELSE ValueNodes(Head(stmts).condition) + ValueNodesOf(Head(stmts).body))
         + ValueNodesOf(Tail(stmts))

\* the result fields of the instructions of a function, block after block
RECURSIVE ResultsOf(_)
ResultsOf(blocks) ==
    IF blocks = <<>> THEN <<>>
    ELSE [k \in 1..Len(Head(blocks).instructions) |-> Head(blocks).instructions[k].result]
         \o ResultsOf(Tail(blocks))

TemporaryResults(f, func) ==
    LET IsTemporary(r) == r \in MintedTemps(f)
    IN SelectSeq(ResultsOf(func.blocks), IsTemporary)

C29_TemporariesNumberedAndSingle ==
    IRGenerated =>
        \A i \in 1..Len(ir_gen.functions) :
            /\ Cardinality(MintedTemps(program.functions[i]))
                   = ValueNodesOf(program.functions[i].body)
            /\ TemporaryResults(program.functions[i], ir_gen.functions[i])
                   = [k \in 1..ValueNodesOf(program.functions[i].body) |->
                          Str_t \o to_string(k - 1)]

(***************************************************************************)
(* C30: after every call of handle_indentation that returns without error  *)
(* the indentation stack is non-empty, its bottom entry is 0, its entries  *)
(* increase strictly from bottom to top, and the INDENT tokens produced so *)
(* far minus the DEDENT tokens produced or still pending are the stack     *)
(* size minus 1.                                                           *)
(***************************************************************************)
\* the calls up to the k-th that returned a token of the type
ReturnedSoFar(returns, k, type) == Cardinality({j \in 1..k : returns[j].tok = type})

StackWellFormed(levels) ==
    /\ levels # <<>>
    /\ levels[1] = 0
    /\ \A j \in 1..(Len(levels) - 1) : levels[j] < levels[j + 1]

IndentsBalanceStack(returns, k) ==
    ReturnedSoFar(returns, k, "INDENT")
        - (ReturnedSoFar(returns, k, "DEDENT") + returns[k].pending)
    = Len(returns[k].levels) - 1

C30_IndentationStackInvariant ==
    lexer.done =>
        \A k \in 1..Len(lexer.returns) :
            /\ StackWellFormed(lexer.returns[k].levels)
            /\ IndentsBalanceStack(lexer.returns, k)

====
